---- MODULE Spec2Model ----
(***************************************************************************)
(* Removable-storage tools of the repository, as state machines:           *)
(*   usb_tool.py                         (Spec)                            *)
(*   secure-wipe-rich.py / wipe-rich.py  (SpecWipe, SpecWipeOne)           *)
(*   parse_passes / parse_size / parse_numeric (SpecParse)                 *)
(* Paths, command lines and numeric expressions are strings, as in the     *)
(* source; a child process is a counter of the bytes it has written and    *)
(* the exit status it ends with.                                           *)
(***************************************************************************)
EXTENDS Integers, Sequences, FiniteSets, TLC

VARIABLES
  \* ---- usb_tool.py ----
  cli,          \* argparse namespace of the run
  euid,         \* os.geteuid()
  plugged,      \* hot-pluggable device nodes present right now
  pc,           \* position of main()
  gate,         \* outcome of sanity_check in this run: "none" | "ok" | "fail"
  gateInventory,\* the device inventory at the time sanity_check ran
  gateExists,   \* what Path(device).exists() returned inside sanity_check
  blkid_out,    \* main: output of blkid (repair mode)
  target_part,  \* main: partition path returned by create_single_partition
  cmds,         \* every child command launched so far, in order
  exitStatus,   \* process exit status, meaningful when pc = "exit"
  exitMsg,      \* what the run ended with
  \* ---- parse_passes / parse_size / parse_numeric ----
  p_arg,        \* the option string handed to the parser
  p_fn,         \* the parser called, None before the call
  p_res,        \* what it returned: [ok, t, v, scale], ok = FALSE for ArgumentTypeError
  \* ---- secure-wipe-rich.py, current_python_scripts/wipe-rich.py ----
  w_script,     \* which of the two scripts runs
  w_entry,      \* "main": the script is run; "wipe_one": the function is called
  w_argv,       \* the command line: [random, passes, bs, targets]
  w_euid,       \* os.geteuid()
  w_devsize,    \* size in bytes of the block devices of the host
  w_srclen,     \* length in bytes of the regular file pattern.bin
  w_pc,         \* position of main / wipe_one
  w_args,       \* argparse namespace: [passes, bs]
  w_ti,         \* main: index of the target of the for loop
  w_frame,      \* wipe_one: [path, source, bs, passes, size, p]
  w_procs,      \* the dd children launched so far: [ti, p, state, written, returncode]
  w_console,    \* what console.print has shown
  w_exitStatus, \* exit status, meaningful when w_pc = "exit"
  \* ---- dcfldd-wrapper.py (a bash script) ----
  d_argv,       \* the command line, a sequence of words
  d_euid,       \* $EUID
  d_srcsize,    \* size in bytes of the source, when it exists
  d_pc,         \* position of the script
  d_opt,        \* INPUT, OUTPUT, BLOCKSIZE, COUNT, VERBOSE, AUTO_YES, DRY_RUN, VERIFY_ONLY
  d_calc,       \* SIZE_BYTES, BLOCKSIZE_BYTES, BLOCK_COUNT
  d_cmds,       \* the commands run on the source or the destination, in order
  d_stderr,     \* what the script wrote on stderr
  d_exitStatus, \* exit status, meaningful when d_pc = "exit"
  \* ---- dcfldd-wrapper.py: the copy step and its embedded Python program ----
  y_entry,      \* "script": started by line 248; "direct": the program run by hand
  y_argv,       \* the words given to the Python program
  y_pc,         \* position of the Python program, then of the script
  y_args,       \* argparse namespace: [total, cmd]
  y_child,      \* the process started by Popen: [state, returncode, lines written]
  y_pipe,       \* lines the child wrote on stderr and the program has not read
  y_progress,   \* the completed= values given to progress.update, in order
  y_pyexit,     \* exit status of the Python program
  y_report,     \* whether the JSON report was written
  y_exitStatus, \* exit status of the script, meaningful when y_pc = "exit"
  \* ---- several runs of usb_tool.py at the same time ----
  r_runs,       \* for each run: [device, force, op, pc, status]
  \* ---- wipe_one / wipe_target: one pass, dd's status lines and the progress bar ----
  s_bs,         \* bs= given to dd
  s_size,       \* size in bytes of the target device
  s_pc,         \* position of wipe_one in the pass
  s_dd,         \* the dd child: [state, written, status lines written, returncode]
  s_pipe,       \* lines dd wrote on stderr and wipe_one has not read
  s_progress,   \* the completed= values given to progress.update, in order
  \* ---- useful_scripts/control-monitor.py, run several times ----
  m_active,     \* the monitors hyprctl monitors -j lists
  m_files,      \* monitors with a state file hyprland-<mon>.state
  m_timers,     \* pending `sleep delay; control-monitor.py enable ...` processes
  m_runs        \* for each invocation: [command, mon, delay, force, defaults, pc]

usbVars == <<cli, euid, plugged, pc, gate, gateInventory, gateExists,
             blkid_out, target_part, cmds, exitStatus, exitMsg>>

parseVars == <<p_arg, p_fn, p_res>>

wipeVars == <<w_script, w_entry, w_argv, w_euid, w_devsize, w_srclen, w_pc, w_args,
              w_ti, w_frame, w_procs, w_console, w_exitStatus>>

imgVars == <<d_argv, d_euid, d_srcsize, d_pc, d_opt, d_calc, d_cmds, d_stderr,
             d_exitStatus>>

copyVars == <<y_entry, y_argv, y_pc, y_args, y_child, y_pipe, y_progress, y_pyexit,
              y_report, y_exitStatus>>

progVars == <<s_bs, s_size, s_pc, s_dd, s_pipe, s_progress>>

monVars == <<m_active, m_files, m_timers, m_runs>>

vars == <<usbVars, parseVars, wipeVars, imgVars, copyVars, r_runs, progVars, monVars>>

notUsb   == <<parseVars, wipeVars, imgVars, copyVars, r_runs, progVars, monVars>>
notParse == <<usbVars, wipeVars, imgVars, copyVars, r_runs, progVars, monVars>>
notWipe  == <<usbVars, parseVars, imgVars, copyVars, r_runs, progVars, monVars>>
notImg   == <<usbVars, parseVars, wipeVars, copyVars, r_runs, progVars, monVars>>
notCopy  == <<usbVars, parseVars, wipeVars, imgVars, r_runs, progVars, monVars>>
notRuns  == <<usbVars, parseVars, wipeVars, imgVars, copyVars, progVars, monVars>>
notProg  == <<usbVars, parseVars, wipeVars, imgVars, copyVars, r_runs, monVars>>
notMon   == <<usbVars, parseVars, wipeVars, imgVars, copyVars, r_runs, progVars>>

----------------------------------------------------------------------------
(* Strings *)

StartsWith(s, p) == Len(s) >= Len(p) /\ SubSeq(s, 1, Len(p)) = p

UpperChars == "ABCDEFGHIJKLMNOPQRSTUVWXYZ"
LowerChars == "abcdefghijklmnopqrstuvwxyz"

LowerChar(c) ==
  IF \E i \in 1..Len(UpperChars) : SubSeq(UpperChars, i, i) = c
  THEN LET i == CHOOSE i \in 1..Len(UpperChars) : SubSeq(UpperChars, i, i) = c
       IN  SubSeq(LowerChars, i, i)
  ELSE c

\* a conversion that leaves the string as it is
LowerUnchanged(s) == s

RECURSIVE Lower(_)
Lower(s) ==
  IF s = "" THEN ""
  ELSE LowerChar(SubSeq(s, 1, 1)) \o Lower(SubSeq(s, 2, Len(s)))

----------------------------------------------------------------------------
(* The host: device nodes and the udev database *)

None == "<None>"

\* udev's block devices, in enumeration order
UdevOrder == <<"/dev/loop0", "/dev/nvme0n1", "/dev/sda", "/dev/sdb", "/dev/sdb1", "/dev/sr0">>

UdevDb ==
  [n \in {UdevOrder[i] : i \in 1..Len(UdevOrder)} |->
     CASE n = "/dev/loop0" -> [DEVTYPE |-> "disk",      ID_TYPE |-> None,   removable |-> 0]
       [] n = "/dev/nvme0n1" -> [DEVTYPE |-> "disk",    ID_TYPE |-> None,   removable |-> 0]
       [] n = "/dev/sda"   -> [DEVTYPE |-> "disk",      ID_TYPE |-> "disk", removable |-> 0]
       [] n = "/dev/sdb"   -> [DEVTYPE |-> "disk",      ID_TYPE |-> "disk", removable |-> 1]
       [] n = "/dev/sdb1"  -> [DEVTYPE |-> "partition", ID_TYPE |-> "disk", removable |-> 0]
       [] n = "/dev/sr0"   -> [DEVTYPE |-> "disk",      ID_TYPE |-> "cd",   removable |-> 1]]

\* nodes that come and go with the USB stick
HotPlug == {"/dev/sdb", "/dev/sdb1"}

\* paths that exist and are no block device
OtherFiles == {"usb.img"}

\* what --device is given: None, existing and missing nodes, a path outside /dev
DeviceArgs == {None, "/dev/loop0", "/dev/nvme0n1", "/dev/sda", "/dev/sdb", "/dev/sdb1",
               "/dev/sr0", "/dev/sdz", "usb.img"}

PresentNodes(pl) == {n \in DOMAIN UdevDb : n \notin HotPlug \/ n \in pl}

PathExists(path, pl) == path \in PresentNodes(pl) \/ path \in OtherFiles

----------------------------------------------------------------------------
(* usb_tool.py: device discovery *)

RECURSIVE ListFrom(_, _)
ListFrom(i, pl) ==
  IF i > Len(UdevOrder) THEN <<>>
  ELSE LET n   == UdevOrder[i]
           dev == UdevDb[n]
       IN  IF n \notin PresentNodes(pl) \/ dev.DEVTYPE # "disk"
           THEN ListFrom(i + 1, pl)
           ELSE IF dev.ID_TYPE = "cd"
                THEN ListFrom(i + 1, pl)
                ELSE <<[name |-> n, removable |-> (dev.removable # 0)]>>
                     \o ListFrom(i + 1, pl)

list_block_devices(pl) == ListFrom(1, pl)

----------------------------------------------------------------------------
(* usb_tool.py: filesystem back-ends *)

FS_TABLE ==
  [k \in {"fat32", "ext4", "ntfs"} |->
     CASE k = "fat32" -> [name |-> "fat32", mkfs_cmd |-> <<"mkfs.fat", "-F", "32">>,
                          repair_cmd |-> <<"dosfsck", "-a">>]
       [] k = "ext4"  -> [name |-> "ext4",  mkfs_cmd |-> <<"mkfs.ext4", "-F">>,
                          repair_cmd |-> <<"e2fsck", "-pf">>]
       [] k = "ntfs"  -> [name |-> "ntfs",  mkfs_cmd |-> <<"mkntfs", "-Q", "-F">>,
                          repair_cmd |-> <<"ntfsfix">>]]

\* fs_backend: the key looked up, or None for SystemExit("Unsupported filesystem")
fs_backend(fs_name) ==
  IF Lower(fs_name) \in DOMAIN FS_TABLE THEN Lower(fs_name) ELSE None

FormatCmd(backend, part, label) ==
  FS_TABLE[backend].mkfs_cmd \o (IF label = None THEN <<>> ELSE <<"-n", label>>) \o <<part>>

RepairCmd(backend, part) == FS_TABLE[backend].repair_cmd \o <<part>>

----------------------------------------------------------------------------
(* usb_tool.py: sanity_check *)

\* any(d["name"] == device and d["removable"] for d in list_block_devices())
LooksRemovable(device, snapshot) ==
  \E i \in 1..Len(snapshot) : snapshot[i].name = device /\ snapshot[i].removable

sanity_check_wrong_force(device, force, exists, snapshot) ==
  IF ~exists THEN "Device does not exist."
  ELSE IF ~StartsWith(device, "/dev/") THEN "Specify a full block-device path"
  ELSE IF ~LooksRemovable(device, snapshot) /\ force
       THEN "does not look like a removable drive"
  ELSE "ok"

sanity_check_ignores_force(device, force, exists, snapshot) ==
  IF ~exists THEN "Device does not exist."
  ELSE IF ~StartsWith(device, "/dev/") THEN "Specify a full block-device path"
  ELSE IF ~LooksRemovable(device, snapshot)
       THEN "does not look like a removable drive"
  ELSE "ok"

sanity_check_no_exists_test(device, force, exists, snapshot) ==
  IF ~StartsWith(device, "/dev/") THEN "Specify a full block-device path"
  ELSE IF ~LooksRemovable(device, snapshot) /\ ~force
       THEN "does not look like a removable drive"
  ELSE "ok"

\* "ok" when it returns, else the SystemExit message
sanity_check(device, force, exists, snapshot) ==
  IF ~exists THEN "Device does not exist."
  ELSE IF ~StartsWith(device, "/dev/") THEN "Specify a full block-device path"
  ELSE IF ~LooksRemovable(device, snapshot) /\ ~force
       THEN "does not look like a removable drive"
  ELSE "ok"

----------------------------------------------------------------------------
(* usb_tool.py: main *)

FormatArgs == {None, "fat32", "ext4", "ntfs", "FAT32", "xfs"}
LabelArgs  == {None, "DATA"}

\* what blkid -o value -s TYPE prints for the filesystems it may find
BlkidTypes == {"vfat", "ext4", "ntfs", "xfs"}

\* effective user ids a run may have: root, and an ordinary user
Euids == {0, 1000}

is_root(uid) == uid = 0

Cli == [list : BOOLEAN, device : DeviceArgs, format : FormatArgs, label : LabelArgs,
        repair : BOOLEAN, scan_badblocks : BOOLEAN, force : BOOLEAN]

InitUsb ==
  /\ cli \in Cli
  /\ euid \in Euids
  /\ plugged \in {{}, HotPlug}
  /\ pc = "parse_args"
  /\ gate = "none"
  /\ gateInventory = <<>>
  /\ gateExists = FALSE
  /\ blkid_out = None
  /\ target_part = None
  /\ cmds = <<>>
  /\ exitStatus = 0
  /\ exitMsg = None

Exit(status, msg) ==
  /\ pc' = "exit"
  /\ exitStatus' = status
  /\ exitMsg' = msg

\* a failing command that ends the run as if nothing had happened
ShFailureIgnored(cmd, ok, next) ==
  /\ cmds' = Append(cmds, cmd)
  /\ IF ok THEN pc' = next /\ UNCHANGED <<exitStatus, exitMsg>>
           ELSE Exit(0, "CalledProcessError")

\* sh(cmd): subprocess.run(cmd, check=True); a failing command ends the run with
\* an uncaught CalledProcessError
Sh(cmd, ok, next) ==
  /\ cmds' = Append(cmds, cmd)
  /\ IF ok THEN pc' = next /\ UNCHANGED <<exitStatus, exitMsg>>
           ELSE Exit(1, "CalledProcessError")

\* build_cli().parse_args(argv): --format takes only the keys of FS_TABLE
ParseArgs ==
  /\ pc = "parse_args"
  /\ IF cli.format # None /\ cli.format \notin DOMAIN FS_TABLE
     THEN Exit(2, "usage: invalid choice")
     ELSE pc' = "is_root" /\ UNCHANGED <<exitStatus, exitMsg>>
  /\ UNCHANGED <<notUsb, cli, euid, plugged, gate, gateInventory, gateExists, blkid_out,
                 target_part, cmds>>

RootCheck ==
  /\ pc = "is_root"
  /\ IF ~is_root(euid)
     THEN Exit(1, "Run this script as root (sudo).")
     ELSE pc' = "mode" /\ UNCHANGED <<exitStatus, exitMsg>>
  /\ UNCHANGED <<notUsb, cli, euid, plugged, gate, gateInventory, gateExists, blkid_out,
                 target_part, cmds>>

ListMode ==
  /\ pc = "mode"
  /\ cli.list
  /\ Exit(0, "list")
  /\ UNCHANGED <<notUsb, cli, euid, plugged, gate, gateInventory, gateExists, blkid_out,
                 target_part, cmds>>

NoDevice ==
  /\ pc = "mode"
  /\ ~cli.list
  /\ cli.device = None
  /\ Exit(1, "No --device specified. See --help.")
  /\ UNCHANGED <<notUsb, cli, euid, plugged, gate, gateInventory, gateExists, blkid_out,
                 target_part, cmds>>

AfterGateAlways(result) == "dispatch"

\* main, line 196: a SystemExit raised by sanity_check ends the run
AfterGate(result) == IF result = "ok" THEN "dispatch" ELSE "exit"

SanityCheck ==
  /\ pc = "mode"
  /\ ~cli.list
  /\ cli.device # None
  /\ LET exists   == PathExists(cli.device, plugged)
         snapshot == list_block_devices(plugged)
         result   == sanity_check(cli.device, cli.force, exists, snapshot)
     IN  /\ gate' = IF result = "ok" THEN "ok" ELSE "fail"
         /\ gateInventory' = snapshot
         /\ gateExists' = exists
         /\ IF AfterGate(result) = "exit"
            THEN Exit(1, result)
            ELSE pc' = AfterGate(result) /\ UNCHANGED <<exitStatus, exitMsg>>
  /\ UNCHANGED <<notUsb, cli, euid, plugged, blkid_out, target_part, cmds>>

\* ------ FORMAT MODE: fs_backend, create_single_partition, backend.format
FormatMode ==
  /\ pc = "dispatch"
  /\ cli.format # None
  /\ IF fs_backend(cli.format) = None
     THEN Exit(1, "Unsupported filesystem")
     ELSE pc' = "mklabel" /\ UNCHANGED <<exitStatus, exitMsg>>
  /\ UNCHANGED <<notUsb, cli, euid, plugged, gate, gateInventory, gateExists, blkid_out,
                 target_part, cmds>>

Mklabel ==
  /\ pc = "mklabel"
  /\ \E ok \in BOOLEAN :
       Sh(<<"parted", "-s", cli.device, "mklabel", "gpt">>, ok, "mkpart")
  /\ UNCHANGED <<notUsb, cli, euid, plugged, gate, gateInventory, gateExists, blkid_out,
                 target_part>>

Mkpart ==
  /\ pc = "mkpart"
  /\ \E ok \in BOOLEAN :
       Sh(<<"parted", "-s", cli.device, "mkpart", "primary", cli.format, "1MiB", "100%">>,
          ok, "partprobe")
  /\ UNCHANGED <<notUsb, cli, euid, plugged, gate, gateInventory, gateExists, blkid_out,
                 target_part>>

Partprobe ==
  /\ pc = "partprobe"
  /\ \E ok \in BOOLEAN :
       /\ Sh(<<"partprobe", cli.device>>, ok, "mkfs")
       /\ target_part' = IF ok THEN cli.device \o "1" ELSE target_part
  /\ UNCHANGED <<notUsb, cli, euid, plugged, gate, gateInventory, gateExists, blkid_out>>

\* the mkfs programs: mkfs.fat takes the volume name with -n, mke2fs and mkntfs
\* take it with -L; to mke2fs and mkntfs -n means "do not write" and takes no
\* value, so that a value after it is read as the device and the partition as
\* a size: the program ends with status 1 and writes nothing
MkfsLabelOption == [k \in DOMAIN FS_TABLE |-> IF k = "fat32" THEN "-n" ELSE "-L"]

MkfsUsage(backend, part, label) ==
  FS_TABLE[backend].mkfs_cmd
    \o (IF label = None THEN <<>> ELSE <<MkfsLabelOption[backend], label>>) \o <<part>>

MkfsOutcomes(backend, cmd, part, label) ==
  IF cmd = MkfsUsage(backend, part, label) THEN BOOLEAN ELSE {FALSE}

Mkfs ==
  /\ pc = "mkfs"
  /\ \E ok \in MkfsOutcomes(fs_backend(cli.format),
                             FormatCmd(fs_backend(cli.format), target_part, cli.label),
                             target_part, cli.label) :
       /\ cmds' = Append(cmds, FormatCmd(fs_backend(cli.format), target_part, cli.label))
       /\ IF ok THEN Exit(0, "Formatted") ELSE Exit(1, "CalledProcessError")
  /\ UNCHANGED <<notUsb, cli, euid, plugged, gate, gateInventory, gateExists, blkid_out,
                 target_part>>

\* ------ REPAIR MODE: blkid, fs_backend, backend.repair
Blkid ==
  /\ pc = "dispatch"
  /\ cli.format = None
  /\ cli.repair
  /\ cmds' = Append(cmds, <<"blkid", "-o", "value", "-s", "TYPE", cli.device>>)
  /\ \/ /\ Exit(1, "CalledProcessError")
        /\ UNCHANGED blkid_out
     \/ /\ \E t \in BlkidTypes : blkid_out' = t
        /\ pc' = "repair_backend"
        /\ UNCHANGED <<exitStatus, exitMsg>>
  /\ UNCHANGED <<notUsb, cli, euid, plugged, gate, gateInventory, gateExists, target_part>>

RepairBackend ==
  /\ pc = "repair_backend"
  /\ IF fs_backend(blkid_out) = None
     THEN Exit(1, "Unsupported filesystem")
     ELSE pc' = "repair" /\ UNCHANGED <<exitStatus, exitMsg>>
  /\ UNCHANGED <<notUsb, cli, euid, plugged, gate, gateInventory, gateExists, blkid_out,
                 target_part, cmds>>

Repair ==
  /\ pc = "repair"
  /\ \E ok \in BOOLEAN :
       /\ cmds' = Append(cmds, RepairCmd(fs_backend(blkid_out), cli.device))
       /\ IF ok THEN Exit(0, "Repair finished") ELSE Exit(1, "CalledProcessError")
  /\ UNCHANGED <<notUsb, cli, euid, plugged, gate, gateInventory, gateExists, blkid_out,
                 target_part>>

\* a scan that does not wait for the format and repair tests to fail
ScanBadblocksInAnyMode ==
  /\ pc = "dispatch"
  /\ cli.scan_badblocks
  /\ \E ok \in BOOLEAN :
       /\ cmds' = Append(cmds, <<"badblocks", "-wsv", cli.device>>)
       /\ IF ok THEN Exit(0, "badblocks done") ELSE Exit(1, "CalledProcessError")
  /\ UNCHANGED <<notUsb, cli, euid, plugged, gate, gateInventory, gateExists, blkid_out,
                 target_part>>

\* ------ BADBLOCKS
ScanBadblocks ==
  /\ pc = "dispatch"
  /\ cli.format = None
  /\ ~cli.repair
  /\ cli.scan_badblocks
  /\ \E ok \in BOOLEAN :
       /\ cmds' = Append(cmds, <<"badblocks", "-wsv", cli.device>>)
       /\ IF ok THEN Exit(0, "badblocks done") ELSE Exit(1, "CalledProcessError")
  /\ UNCHANGED <<notUsb, cli, euid, plugged, gate, gateInventory, gateExists, blkid_out,
                 target_part>>

NothingToDo ==
  /\ pc = "dispatch"
  /\ cli.format = None
  /\ ~cli.repair
  /\ ~cli.scan_badblocks
  /\ Exit(0, "Nothing to do. See --help.")
  /\ UNCHANGED <<notUsb, cli, euid, plugged, gate, gateInventory, gateExists, blkid_out,
                 target_part, cmds>>

\* ------ the host: the USB stick is pulled or plugged while the tool runs
Unplug ==
  /\ pc # "exit"
  /\ plugged = HotPlug
  /\ plugged' = {}
  /\ UNCHANGED <<notUsb, cli, euid, pc, gate, gateInventory, gateExists, blkid_out,
                 target_part, cmds, exitStatus, exitMsg>>

Plug ==
  /\ pc # "exit"
  /\ plugged = {}
  /\ plugged' = HotPlug
  /\ UNCHANGED <<notUsb, cli, euid, pc, gate, gateInventory, gateExists, blkid_out,
                 target_part, cmds, exitStatus, exitMsg>>

NextUsb ==
  \/ ParseArgs \/ RootCheck \/ ListMode \/ NoDevice \/ SanityCheck
  \/ FormatMode \/ Mklabel \/ Mkpart \/ Partprobe \/ Mkfs
  \/ Blkid \/ RepairBackend \/ Repair
  \/ ScanBadblocks \/ NothingToDo
  \/ Unplug \/ Plug

----------------------------------------------------------------------------
(* Python: ast.parse(body, mode='eval') for the characters the option strings
   are made of.  A letter never yields a literal here: "1M" is a syntax error
   and a bare name is no literal. *)

Char(s, i) == SubSeq(s, i, i)

Digits == "0123456789"

IsDigit(c) == \E i \in 1..Len(Digits) : Char(Digits, i) = c

DigitVal(c) == (CHOOSE i \in 1..Len(Digits) : Char(Digits, i) = c) - 1

RECURSIVE DigitRunEnd(_, _)
\* index of the last digit of the run of digits that starts at i
DigitRunEnd(s, i) ==
  IF i < Len(s) /\ IsDigit(Char(s, i + 1)) THEN DigitRunEnd(s, i + 1) ELSE i

RECURSIVE DecVal(_)
DecVal(lit) ==
  IF lit = "" THEN 0
  ELSE 10 * DecVal(SubSeq(lit, 1, Len(lit) - 1)) + DigitVal(Char(lit, Len(lit)))

\* "leading zeros in decimal integer literals are not permitted"
BadLeadingZero(lit) == Len(lit) > 1 /\ Char(lit, 1) = "0" /\ DecVal(lit) # 0

NumTok(n) == [k |-> "num", n |-> n,  op |-> ""]
OpTok(o)  == [k |-> "op",  n |-> 0,  op |-> o]

RECURSIVE Tokens(_, _)
\* the tokens of s from index i on: [ok, toks]
Tokens(s, i) ==
  IF i > Len(s) THEN [ok |-> TRUE, toks |-> <<>>]
  ELSE LET c == Char(s, i) IN
    IF c = " " THEN Tokens(s, i + 1)
    ELSE IF IsDigit(c) THEN
      LET j    == DigitRunEnd(s, i)
          lit  == SubSeq(s, i, j)
          rest == Tokens(s, j + 1)
      IN  IF BadLeadingZero(lit) \/ ~rest.ok THEN [ok |-> FALSE, toks |-> <<>>]
          ELSE [ok |-> TRUE, toks |-> <<NumTok(DecVal(lit))>> \o rest.toks]
    ELSE IF c \in {"*", "/"} /\ i < Len(s) /\ Char(s, i + 1) = c THEN
      LET rest == Tokens(s, i + 2)
      IN  IF ~rest.ok THEN [ok |-> FALSE, toks |-> <<>>]
          ELSE [ok |-> TRUE, toks |-> <<OpTok(c \o c)>> \o rest.toks]
    ELSE IF c \in {"+", "-", "*", "/", "(", ")"} THEN
      LET rest == Tokens(s, i + 1)
      IN  IF ~rest.ok THEN [ok |-> FALSE, toks |-> <<>>]
          ELSE [ok |-> TRUE, toks |-> <<OpTok(c)>> \o rest.toks]
    ELSE [ok |-> FALSE, toks |-> <<>>]

\* AST nodes
Constant(v)      == [t |-> "Constant", v |-> v]
EmptyTuple       == [t |-> "Tuple"]
UnaryOp(op, a)   == [t |-> "UnaryOp", op |-> op, operand |-> a]
BinOp(l, op, r)  == [t |-> "BinOp", left |-> l, op |-> op, right |-> r]
Call(f, a)       == [t |-> "Call", func |-> f, args |-> a]

SyntaxError == [ok |-> FALSE, node |-> EmptyTuple, pos |-> 0]
Parsed(node, pos) == [ok |-> TRUE, node |-> node, pos |-> pos]

IsOp(toks, i, ops) == i <= Len(toks) /\ toks[i].k = "op" /\ toks[i].op \in ops

RECURSIVE PyExpr(_, _, _, _)
\* Python's expression grammar, one rule per case, from token i on; `left` is the
\* node parsed so far for the rules that continue one (the *_rest rules and the
\* call trailers).  All rules are one operator so that the recursion is direct.
PyExpr(rule, toks, i, left) ==
  CASE rule = "arith" ->
         \* arith_expr: term (('+'|'-') term)*
         LET l == PyExpr("term", toks, i, EmptyTuple)
         IN  IF ~l.ok THEN SyntaxError ELSE PyExpr("arith_rest", toks, l.pos, l.node)
    [] rule = "arith_rest" ->
         IF IsOp(toks, i, {"+", "-"})
         THEN LET r == PyExpr("term", toks, i + 1, EmptyTuple)
              IN  IF ~r.ok THEN SyntaxError
                  ELSE PyExpr("arith_rest", toks, r.pos, BinOp(left, toks[i].op, r.node))
         ELSE Parsed(left, i)
    [] rule = "term" ->
         \* term: factor (('*'|'/'|'//') factor)*
         LET l == PyExpr("factor", toks, i, EmptyTuple)
         IN  IF ~l.ok THEN SyntaxError ELSE PyExpr("term_rest", toks, l.pos, l.node)
    [] rule = "term_rest" ->
         IF IsOp(toks, i, {"*", "/", "//"})
         THEN LET r == PyExpr("factor", toks, i + 1, EmptyTuple)
              IN  IF ~r.ok THEN SyntaxError
                  ELSE PyExpr("term_rest", toks, r.pos, BinOp(left, toks[i].op, r.node))
         ELSE Parsed(left, i)
    [] rule = "factor" ->
         \* factor: ('+'|'-') factor | power
         IF IsOp(toks, i, {"+", "-"})
         THEN LET a == PyExpr("factor", toks, i + 1, EmptyTuple)
              IN  IF ~a.ok THEN SyntaxError
                  ELSE Parsed(UnaryOp(toks[i].op, a.node), a.pos)
         ELSE PyExpr("power", toks, i, EmptyTuple)
    [] rule = "power" ->
         \* power: primary ['**' factor]
         LET b == PyExpr("primary", toks, i, EmptyTuple) IN
         IF ~b.ok THEN SyntaxError
         ELSE IF IsOp(toks, b.pos, {"**"})
              THEN LET e == PyExpr("factor", toks, b.pos + 1, EmptyTuple)
                   IN  IF ~e.ok THEN SyntaxError
                       ELSE Parsed(BinOp(b.node, "**", e.node), e.pos)
              ELSE b
    [] rule = "primary" ->
         \* primary: atom trailer*
         LET a == PyExpr("atom", toks, i, EmptyTuple)
         IN  IF ~a.ok THEN SyntaxError ELSE PyExpr("trailers", toks, a.pos, a.node)
    [] rule = "trailers" ->
         \* trailer: '(' [expr] ')'  -- a call of what was parsed so far
         IF IsOp(toks, i, {"("})
         THEN IF IsOp(toks, i + 1, {")"})
              THEN PyExpr("trailers", toks, i + 2, Call(left, <<>>))
              ELSE LET a == PyExpr("arith", toks, i + 1, EmptyTuple)
                   IN  IF a.ok /\ IsOp(toks, a.pos, {")"})
                       THEN PyExpr("trailers", toks, a.pos + 1, Call(left, <<a.node>>))
                       ELSE SyntaxError
         ELSE Parsed(left, i)
    [] rule = "atom" ->
         \* atom: NUMBER | '(' expr ')' | '(' ')'
         IF i > Len(toks) THEN SyntaxError
         ELSE IF toks[i].k = "num" THEN Parsed(Constant(toks[i].n), i + 1)
         ELSE IF IsOp(toks, i, {"("})
              THEN IF IsOp(toks, i + 1, {")"})
                   THEN Parsed(EmptyTuple, i + 2)
                   ELSE LET a == PyExpr("arith", toks, i + 1, EmptyTuple)
                        IN  IF a.ok /\ IsOp(toks, a.pos, {")"})
                            THEN Parsed(a.node, a.pos + 1)
                            ELSE SyntaxError
         ELSE SyntaxError

\* ast.parse(src, mode='eval'): [ok, node]; leading blanks are an IndentationError
parse(src) ==
  IF src = "" \/ Char(src, 1) = " " THEN SyntaxError
  ELSE LET t == Tokens(src, 1) IN
       IF ~t.ok THEN SyntaxError
       ELSE LET a == PyExpr("arith", t.toks, 1, EmptyTuple)
            IN  IF a.ok /\ a.pos = Len(t.toks) + 1 THEN a ELSE SyntaxError

\* Python values: an int, or the empty tuple
PyInt(v) == [t |-> "int", v |-> v]
PyTuple  == [t |-> "tuple", v |-> 0]

ValueError == [ok |-> FALSE, val |-> PyTuple]

\* ast.literal_eval(node): literals only -- a number, a signed number, ();
\* a BinOp is accepted only as <real> +/- <complex>, which these strings cannot spell
literal_eval(p) ==
  IF ~p.ok THEN ValueError
  ELSE LET node == p.node IN
    CASE node.t = "Constant" -> [ok |-> TRUE, val |-> PyInt(node.v)]
      [] node.t = "Tuple"    -> [ok |-> TRUE, val |-> PyTuple]
      [] node.t = "UnaryOp"  ->
           IF node.operand.t = "Constant"
           THEN [ok |-> TRUE,
                 val |-> PyInt(IF node.op = "-" THEN 0 - node.operand.v ELSE node.operand.v)]
           ELSE ValueError
      [] OTHER -> ValueError

----------------------------------------------------------------------------
(* re.fullmatch(r"\s*([0-9+\-*/() ]+)([MmGg])?[iI]?[Bb]?\s*", value) *)

BodyChars == "0123456789+-*/() "

IsBodyChar(c) == \E i \in 1..Len(BodyChars) : Char(BodyChars, i) = c

RECURSIVE RunEnd(_, _)
\* index of the last character of the longest run of body characters from i on
\* (i - 1 when there is none)
RunEnd(s, i) ==
  IF i <= Len(s) /\ IsBodyChar(Char(s, i)) THEN RunEnd(s, i + 1) ELSE i - 1

RECURSIVE LeadingBlanks(_)
LeadingBlanks(s) ==
  IF s # "" /\ Char(s, 1) = " " THEN 1 + LeadingBlanks(SubSeq(s, 2, Len(s))) ELSE 0

AllBlank(s) == LeadingBlanks(s) = Len(s)

\* s with one leading character dropped when it is one of the set
DropOpt(s, set) == IF s # "" /\ Char(s, 1) \in set THEN SubSeq(s, 2, Len(s)) ELSE s

NoMatch == [ok |-> FALSE, body |-> "", unit |-> None]

\* [ok, body = group(1), unit = group(2) or None]
SizeRegex(value) ==
  IF value = "" THEN NoMatch
  ELSE IF AllBlank(value) THEN [ok |-> TRUE, body |-> " ", unit |-> None]
  ELSE LET b    == LeadingBlanks(value) + 1
           e    == RunEnd(value, b)
           rest == SubSeq(value, e + 1, Len(value))
           unit == IF rest # "" /\ Char(rest, 1) \in {"M", "m", "G", "g"}
                   THEN Char(rest, 1) ELSE None
           tail == DropOpt(DropOpt(DropOpt(rest, {"M", "m", "G", "g"}), {"i", "I"}),
                           {"B", "b"})
       IN  IF e >= b /\ AllBlank(tail)
           THEN [ok |-> TRUE, body |-> SubSeq(value, b, e), unit |-> unit]
           ELSE NoMatch

----------------------------------------------------------------------------
(* The three parsers *)

MiB == 1024 * 1024
GiB == 1024 * 1024 * 1024

\* A returned number is v * scale, scale the factor of the unit suffix: Python's
\* integers are unbounded, and 2 * GiB is beyond the integers of the checker, so
\* the product is kept as its two factors.
ArgumentTypeError == [ok |-> FALSE, t |-> "tuple", v |-> 0, scale |-> 1]
Returns(val, factor) ==
  [ok |-> TRUE, t |-> val.t, v |-> val.v,
   \* number *= factor: () * n is ()
   scale |-> IF val.t = "int" THEN factor ELSE 1]

\* secure-wipe-rich.py
parse_passes(value) ==
  LET number == literal_eval(parse(value)) IN
  IF ~number.ok THEN ArgumentTypeError
  ELSE IF number.val.t # "int" \/ number.val.v < 1 THEN ArgumentTypeError
  ELSE Returns(number.val, 1)

\* secure-wipe-rich.py
parse_size(value) ==
  LET m == SizeRegex(value) IN
  IF ~m.ok THEN ArgumentTypeError
  ELSE LET number == literal_eval(parse(m.body)) IN
       IF ~number.ok THEN ArgumentTypeError
       ELSE IF m.unit # None
            THEN IF Lower(m.unit) = "m"
                 THEN Returns(number.val, MiB)
                 ELSE Returns(number.val, GiB)
            ELSE Returns(number.val, 1)

\* current_python_scripts/wipe-rich.py
parse_numeric(expr) ==
  LET m == SizeRegex(expr) IN
  IF ~m.ok THEN ArgumentTypeError
  ELSE LET value == literal_eval(parse(m.body)) IN
       IF ~value.ok THEN ArgumentTypeError
       ELSE IF value.val.t # "int" \/ value.val.v < 1 THEN ArgumentTypeError
       ELSE IF m.unit # None
            THEN Returns(value.val, IF Lower(m.unit) = "m" THEN MiB ELSE GiB)
            ELSE Returns(value.val, 1)

----------------------------------------------------------------------------
(* The parsers as argparse calls them: one option string in, a value or an
   ArgumentTypeError out *)

MaxExprLen == 3

ExprAlphabet == {"0", "1", "2", "+", "-", "*", "/", "(", ")", "M", "G", " "}

RECURSIVE Strings(_)
\* every string of at most n characters of the alphabet
Strings(n) ==
  IF n = 0 THEN {""}
  ELSE LET shorter == Strings(n - 1)
       IN  shorter \cup {s \o c : s \in shorter, c \in ExprAlphabet}

\* the expressions the help text of wipe-rich.py gives as examples
DocExamples == {"1", "2*2", "(1+3)", "512", "4M", "2*1024M", "(1+1)G", "(1+3)M"}

ExprInputs == Strings(MaxExprLen) \cup DocExamples

IdleUsb ==
  /\ cli = [list |-> FALSE, device |-> None, format |-> None, label |-> None,
            repair |-> FALSE, scan_badblocks |-> FALSE, force |-> FALSE]
  /\ euid = 0
  /\ plugged = {}
  /\ pc = "idle"
  /\ gate = "none"
  /\ gateInventory = <<>>
  /\ gateExists = FALSE
  /\ blkid_out = None
  /\ target_part = None
  /\ cmds = <<>>
  /\ exitStatus = 0
  /\ exitMsg = None

IdleParse ==
  /\ p_arg = ""
  /\ p_fn = None
  /\ p_res = ArgumentTypeError

InitParse ==
  /\ p_arg \in ExprInputs
  /\ p_fn = None
  /\ p_res = ArgumentTypeError

CallParsePasses ==
  /\ p_fn = None
  /\ p_fn' = "parse_passes"
  /\ p_res' = parse_passes(p_arg)
  /\ UNCHANGED <<notParse, p_arg>>

CallParseSize ==
  /\ p_fn = None
  /\ p_fn' = "parse_size"
  /\ p_res' = parse_size(p_arg)
  /\ UNCHANGED <<notParse, p_arg>>

CallParseNumeric ==
  /\ p_fn = None
  /\ p_fn' = "parse_numeric"
  /\ p_res' = parse_numeric(p_arg)
  /\ UNCHANGED <<notParse, p_arg>>

NextParse == CallParsePasses \/ CallParseSize \/ CallParseNumeric

----------------------------------------------------------------------------
(* secure-wipe-rich.py and current_python_scripts/wipe-rich.py *)

MaxPasses == 3
MaxBs     == 2
MaxSize   == 3

SecureWipeRich == "secure-wipe-rich.py"
WipeRich       == "current_python_scripts/wipe-rich.py"

\* -p, -b: absent (None), a numeral, an expression
PassesArgs == {None, "2*2"} \cup {ToString(n) : n \in 0..MaxPasses}
BsArgs     == {None} \cup {ToString(n) : n \in 0..MaxBs}

\* TARGET [TARGET...]: a fixed disk, a USB stick, a path that does not exist
TargetLists == {<<"/dev/sda">>, <<"/dev/sdb">>, <<"/dev/sdz">>,
                <<"/dev/sda", "/dev/sdb">>, <<"/dev/sdz", "/dev/sdb">>,
                <<"/dev/sdb", "/dev/sdz">>, <<"/dev/sdb", "/dev/sdb">>}

\* sources that never end, and a regular file
CharSources == {"/dev/zero", "/dev/urandom"}
FileSource  == "pattern.bin"

NoFrame == [path |-> None, source |-> None, bs |-> 0, passes |-> 0, size |-> 0, p |-> 0]
NoArgs  == [passes |-> 0, bs |-> 0]
NoArgv  == [random |-> FALSE, passes |-> None, bs |-> None, targets |-> <<>>]

IdleWipe ==
  /\ w_script = SecureWipeRich
  /\ w_entry = "main"
  /\ w_argv = NoArgv
  /\ w_euid = 0
  /\ w_devsize = 0
  /\ w_srclen = 0
  /\ w_pc = "idle"
  /\ w_args = NoArgs
  /\ w_ti = 0
  /\ w_frame = NoFrame
  /\ w_procs = <<>>
  /\ w_console = <<>>
  /\ w_exitStatus = 0

\* the script is run from the shell
InitWipeMain ==
  /\ w_script \in {SecureWipeRich, WipeRich}
  /\ w_entry = "main"
  /\ w_argv \in [random : BOOLEAN, passes : PassesArgs, bs : BsArgs, targets : TargetLists]
  /\ w_euid \in Euids
  /\ w_devsize \in 1..MaxSize
  /\ w_srclen = 0
  /\ w_pc = "parse_args"
  /\ w_args = NoArgs
  /\ w_ti = 0
  /\ w_frame = NoFrame
  /\ w_procs = <<>>
  /\ w_console = <<>>
  /\ w_exitStatus = 0

\* wipe_one / wipe_target is called with arguments of its own
InitWipeOne ==
  /\ w_script \in {SecureWipeRich, WipeRich}
  /\ w_entry = "wipe_one"
  /\ w_argv = NoArgv
  /\ w_euid = 0
  /\ w_devsize \in 1..MaxSize
  /\ w_srclen \in 0..MaxSize
  /\ w_pc = "wipe_one"
  /\ w_args = NoArgs
  /\ w_ti = 1
  /\ \E source \in CharSources \cup {FileSource}, bs \in 0..MaxBs, passes \in 1..MaxPasses :
       w_frame = [path |-> "/dev/sdb", source |-> source, bs |-> bs, passes |-> passes,
                  size |-> 0, p |-> 0]
  /\ w_procs = <<>>
  /\ w_console = <<>>
  /\ w_exitStatus = 0

WExit(status) ==
  /\ w_pc' = "exit"
  /\ w_exitStatus' = status

\* the value of a parsed option
IntOf(res) == res.v * res.scale

PassesParser(script, value) ==
  IF script = SecureWipeRich THEN parse_passes(value) ELSE parse_numeric(value)

BsParser(script, value) ==
  IF script = SecureWipeRich THEN parse_size(value) ELSE parse_numeric(value)

\* wipe-rich.py adds -h/--help to a parser that already has it (add_help is
\* left at its default): add_argument raises ArgumentError, which nothing catches
HelpOptionConflict(script) == script = WipeRich

\* building the parser and parser.parse_args(): type= converts -p and -b, the
\* defaults are 1 and the parsed '1M'; an ArgumentTypeError is a usage error,
\* status 2; an uncaught exception ends the interpreter with status 1
WParseArgs ==
  /\ w_pc = "parse_args"
  /\ LET passes == IF w_argv.passes = None THEN [ok |-> TRUE, t |-> "int", v |-> 1, scale |-> 1]
                   ELSE PassesParser(w_script, w_argv.passes)
         bs     == BsParser(w_script, IF w_argv.bs = None THEN "1M" ELSE w_argv.bs)
     IN  IF HelpOptionConflict(w_script)
         THEN /\ WExit(1)
              /\ w_console' = Append(w_console, "Traceback ArgumentError")
              /\ UNCHANGED w_args
         ELSE IF passes.ok /\ bs.ok
         THEN /\ w_args' = [passes |-> IntOf(passes), bs |-> IntOf(bs)]
              /\ w_pc' = "geteuid"
              /\ UNCHANGED <<w_exitStatus, w_console>>
         ELSE /\ WExit(2)
              /\ UNCHANGED <<w_args, w_console>>
  /\ UNCHANGED <<notWipe, w_script, w_entry, w_argv, w_euid, w_devsize, w_srclen, w_ti,
                 w_frame, w_procs>>

\* a root test that lets every user through
WRootOkAlways(uid) == TRUE

\* os.geteuid() != 0 ends the run
WRootOk(uid) == uid = 0

WRootCheck ==
  /\ w_pc = "geteuid"
  /\ IF WRootOk(w_euid)
     THEN /\ w_pc' = "loop"
          /\ w_ti' = 1
          /\ UNCHANGED <<w_exitStatus, w_console>>
     ELSE /\ WExit(1)
          /\ w_console' = Append(w_console, "ERROR root")
          /\ UNCHANGED w_ti
  /\ UNCHANGED <<notWipe, w_script, w_entry, w_argv, w_euid, w_devsize, w_srclen, w_args,
                 w_frame, w_procs>>

\* os.path.exists(tgt)
WExists(tgt) == PathExists(tgt, HotPlug)

\* for tgt in targets: not found -> continue
WTargetMissing ==
  /\ w_pc = "loop"
  /\ w_ti <= Len(w_argv.targets)
  /\ ~WExists(w_argv.targets[w_ti])
  /\ w_console' = Append(w_console, "ERROR not found")
  /\ w_ti' = w_ti + 1
  /\ UNCHANGED <<notWipe, w_script, w_entry, w_argv, w_euid, w_devsize, w_srclen, w_pc,
                 w_args, w_frame, w_procs, w_exitStatus>>

\* wipe_one(tgt, source, args.bs, args.passes)
WCallWipe ==
  /\ w_pc = "loop"
  /\ w_ti <= Len(w_argv.targets)
  /\ WExists(w_argv.targets[w_ti])
  /\ w_frame' = [path   |-> w_argv.targets[w_ti],
                 source |-> IF w_argv.random THEN "/dev/urandom" ELSE "/dev/zero",
                 bs     |-> w_args.bs,
                 passes |-> w_args.passes,
                 size   |-> 0,
                 p      |-> 0]
  /\ w_pc' = "wipe_one"
  /\ UNCHANGED <<notWipe, w_script, w_entry, w_argv, w_euid, w_devsize, w_srclen, w_args,
                 w_ti, w_procs, w_console, w_exitStatus>>

\* after the loop: "Secure wipe completed", and main returns
WCompleted ==
  /\ w_pc = "loop"
  /\ w_ti > Len(w_argv.targets)
  /\ w_console' = Append(w_console, "Secure wipe completed")
  /\ WExit(0)
  /\ UNCHANGED <<notWipe, w_script, w_entry, w_argv, w_euid, w_devsize, w_srclen, w_args,
                 w_ti, w_frame, w_procs>>

\* wipe_one: size = get_size(path); for p in range(1, passes + 1)
WipeOneEntry ==
  /\ w_pc = "wipe_one"
  /\ w_frame' = [w_frame EXCEPT !.size = w_devsize, !.p = 1]
  /\ w_pc' = IF w_frame.passes >= 1 THEN "pass" ELSE "ret"
  /\ UNCHANGED <<notWipe, w_script, w_entry, w_argv, w_euid, w_devsize, w_srclen, w_args,
                 w_ti, w_procs, w_console, w_exitStatus>>

\* subprocess.Popen(["dd", if=source, of=path, bs=bs, "status=progress"])
WLaunch ==
  /\ w_pc = "pass"
  /\ w_procs' = Append(w_procs, [ti |-> w_ti, p |-> w_frame.p, state |-> "running",
                                 written |-> 0, returncode |-> 0])
  /\ w_pc' = "wait"
  /\ UNCHANGED <<notWipe, w_script, w_entry, w_argv, w_euid, w_devsize, w_srclen, w_args,
                 w_ti, w_frame, w_console, w_exitStatus>>

PassFinishedNoWait(proc) == TRUE

\* for line in proc.stderr: ... ; proc.wait(): both end when the child has exited
PassFinished(proc) == proc.state = "exited"

GoOnAfterAnyPass(returncode) == TRUE

\* if proc.returncode != 0: ... break
GoOnAfter(returncode) == returncode = 0

WWait ==
  /\ w_pc = "wait"
  /\ LET proc == w_procs[Len(w_procs)] IN
     /\ PassFinished(proc)
     /\ IF ~GoOnAfter(proc.returncode)
        THEN /\ w_console' = Append(w_console, "ERROR pass failed")
             /\ w_pc' = "ret"
             /\ UNCHANGED w_frame
        ELSE /\ UNCHANGED w_console
             /\ IF w_frame.p < w_frame.passes
                THEN w_frame' = [w_frame EXCEPT !.p = @ + 1] /\ w_pc' = "pass"
                ELSE w_pc' = "ret" /\ UNCHANGED w_frame
  /\ UNCHANGED <<notWipe, w_script, w_entry, w_argv, w_euid, w_devsize, w_srclen, w_args,
                 w_ti, w_procs, w_exitStatus>>

\* wipe_one returns: to the for loop of main, or to its caller
WReturn ==
  /\ w_pc = "ret"
  /\ IF w_entry = "main"
     THEN w_pc' = "loop" /\ w_ti' = w_ti + 1
     ELSE w_pc' = "returned" /\ UNCHANGED w_ti
  /\ UNCHANGED <<notWipe, w_script, w_entry, w_argv, w_euid, w_devsize, w_srclen, w_args,
                 w_frame, w_procs, w_console, w_exitStatus>>

\* ---- the child: dd if=source of=path bs=bs status=progress (no count=)

\* bytes the source still has for a child that has copied `written` bytes
SrcLeft(source, bs, written) ==
  IF source \in CharSources THEN bs ELSE w_srclen - written

Min(a, b) == IF a <= b THEN a ELSE b

\* dd copies one block; the last write to a device is cut at its end
DdCopy ==
  /\ \E i \in 1..Len(w_procs) :
       LET proc == w_procs[i]
           left == SrcLeft(w_frame.source, w_frame.bs, proc.written)
       IN  /\ proc.state = "running"
           /\ w_frame.bs > 0
           /\ left > 0
           /\ proc.written < w_frame.size
           /\ w_procs' = [w_procs EXCEPT ![i].written =
                            @ + Min(Min(w_frame.bs, left), w_frame.size - @)]
  /\ UNCHANGED <<notWipe, w_script, w_entry, w_argv, w_euid, w_devsize, w_srclen, w_pc,
                 w_args, w_ti, w_frame, w_console, w_exitStatus>>

\* exit status of a dd that can copy no further: 1 for bs=0 ("invalid number"),
\* 0 at the end of its input, 1 at the end of the device ("No space left on device")
DdStatus(bs, left) == IF bs <= 0 THEN 1 ELSE IF left = 0 THEN 0 ELSE 1

DdExit ==
  /\ \E i \in 1..Len(w_procs) :
       LET proc == w_procs[i]
           left == SrcLeft(w_frame.source, w_frame.bs, proc.written)
       IN  /\ proc.state = "running"
           /\ w_frame.bs <= 0 \/ left = 0 \/ proc.written = w_frame.size
           /\ w_procs' = [w_procs EXCEPT ![i].state = "exited",
                                         ![i].returncode = DdStatus(w_frame.bs, left)]
  /\ UNCHANGED <<notWipe, w_script, w_entry, w_argv, w_euid, w_devsize, w_srclen, w_pc,
                 w_args, w_ti, w_frame, w_console, w_exitStatus>>

\* a write inside the device fails with an I/O error: dd stops
DdIoError ==
  /\ \E i \in 1..Len(w_procs) :
       /\ w_procs[i].state = "running"
       /\ w_frame.bs > 0
       /\ w_procs[i].written < w_frame.size
       /\ w_procs' = [w_procs EXCEPT ![i].state = "exited", ![i].returncode = 1]
  /\ UNCHANGED <<notWipe, w_script, w_entry, w_argv, w_euid, w_devsize, w_srclen, w_pc,
                 w_args, w_ti, w_frame, w_console, w_exitStatus>>

NextWipeOne ==
  \/ WipeOneEntry \/ WLaunch \/ WWait \/ WReturn
  \/ DdCopy \/ DdExit \/ DdIoError

NextWipe ==
  \/ WParseArgs \/ WRootCheck \/ WTargetMissing \/ WCallWipe \/ WCompleted
  \/ WipeOneEntry \/ WLaunch \/ WWait \/ WReturn
  \/ DdCopy \/ DdExit \/ DdIoError

----------------------------------------------------------------------------
(* Claims about usb_tool.py *)

InInventory(device, snapshot) ==
  \E i \in 1..Len(snapshot) : snapshot[i].name = device

NonRemovableEntry(device, snapshot) ==
  \E i \in 1..Len(snapshot) : snapshot[i].name = device /\ ~snapshot[i].removable

\* the device a command line acts on
CmdTarget(c) == IF c[1] = "parted" THEN c[3] ELSE c[Len(c)]

\* C1: when the inventory entry of the device says removable = false and force
\* is false, sanity_check ends the run with the removable-drive violation and a
\* non-zero status, and no command has been launched.
C1_NonRemovableUnforcedRejected ==
  (gate # "none" /\ ~cli.force /\ NonRemovableEntry(cli.device, gateInventory))
    => /\ gate = "fail"
       /\ pc = "exit"
       /\ exitStatus # 0
       /\ exitMsg = "does not look like a removable drive"
       /\ cmds = <<>>

C1_Witness ==
  /\ gate = "fail"
  /\ ~cli.force
  /\ cli.device = "/dev/sda"
  /\ NonRemovableEntry(cli.device, gateInventory)

\* C2 as stated: with force = true, every path that exists is approved.
C2_ForcedExistingPathApproved ==
  (gate # "none" /\ cli.force /\ gateExists) => gate = "ok"

\* C2 amended: with force = true, every path that exists and starts with /dev/
\* is approved, whatever its removable flag and whether or not the inventory
\* lists it; an existing path outside /dev/ is rejected even with force.
C2_ForcedExistingDevPathApproved ==
  /\ (gate # "none" /\ cli.force /\ gateExists /\ StartsWith(cli.device, "/dev/"))
       => gate = "ok"
  /\ (gate # "none" /\ ~StartsWith(cli.device, "/dev/")) => gate = "fail"

C2_Witness ==
  /\ gate = "ok"
  /\ cli.force
  /\ NonRemovableEntry(cli.device, gateInventory)

\* C3 as stated: a path that is no entry of the inventory queried at
\* authorization time is rejected, whatever force.
C3_NotInInventoryRejected ==
  (gate # "none" /\ ~InInventory(cli.device, gateInventory)) => gate = "fail"

\* C3 amended: a path that does not exist (or does not start with /dev/) is
\* rejected whatever force; a path that is no entry of the inventory is rejected
\* when force is false.
C3_MissingOrUnlistedUnforcedRejected ==
  /\ (gate # "none" /\ ~gateExists) => gate = "fail"
  /\ (gate # "none" /\ ~cli.force /\ ~InInventory(cli.device, gateInventory))
       => gate = "fail"

C3_Witness ==
  /\ gate = "fail"
  /\ cli.force
  /\ ~gateExists
  /\ ~InInventory(cli.device, gateInventory)

\* C4: a command is launched only after sanity_check approved the device of this
\* run, every command acts on that device or on its partition, and a rejected
\* run has launched nothing and has ended.
C4_CommandsOnlyAfterApproval ==
  /\ cmds # <<>> =>
       /\ gate = "ok"
       /\ \A i \in 1..Len(cmds) :
            CmdTarget(cmds[i]) \in {cli.device, cli.device \o "1"}
  /\ gate = "fail" => (cmds = <<>> /\ pc = "exit" /\ exitStatus # 0)

C4_Witness ==
  /\ gate = "ok"
  /\ pc = "exit"
  /\ Len(cmds) = 4
  /\ cmds[4][1] = "mkfs.fat"

----------------------------------------------------------------------------
(* Claims about the parsers *)

RECURSIVE EvalArith(_)
\* Python's value of an expression of integers, + - * and unary signs: [ok, v];
\* not ok for anything else (a division yields a float, () is no number)
EvalArith(node) ==
  CASE node.t = "Constant" -> [ok |-> TRUE, v |-> node.v]
    [] node.t = "UnaryOp" ->
         LET a == EvalArith(node.operand)
         IN  [ok |-> a.ok, v |-> IF node.op = "-" THEN 0 - a.v ELSE a.v]
    [] node.t = "BinOp" /\ node.op \in {"+", "-", "*"} ->
         LET l == EvalArith(node.left)
             r == EvalArith(node.right)
         IN  [ok |-> l.ok /\ r.ok,
              v  |-> CASE node.op = "+" -> l.v + r.v
                       [] node.op = "-" -> l.v - r.v
                       [] node.op = "*" -> l.v * r.v]
    [] OTHER -> [ok |-> FALSE, v |-> 0]

UnitFactor(unit) ==
  IF unit = None THEN 1 ELSE IF unit \in {"M", "m"} THEN MiB ELSE GiB

\* what <arithmetic>[M|G] denotes when it is a valid expression with a positive
\* integer value: [ok, v, scale]
Denotes(arg) ==
  LET m == SizeRegex(arg)
      a == IF m.ok THEN parse(m.body) ELSE SyntaxError
      e == IF a.ok THEN EvalArith(a.node) ELSE [ok |-> FALSE, v |-> 0]
  IN  [ok |-> m.ok /\ a.ok /\ e.ok /\ e.v >= 1, v |-> e.v, scale |-> UnitFactor(m.unit)]

\* C9: for every valid expression <arithmetic>[M|G] with a positive integer
\* value, a parser returns eval(arithmetic) times 1, 2^20 (M) or 2^30 (G).
C9_ParsersEvaluateArithmetic ==
  (p_fn # None /\ Denotes(p_arg).ok)
    => p_res = [ok |-> TRUE, t |-> "int", v |-> Denotes(p_arg).v,
                scale |-> Denotes(p_arg).scale]

\* C10: every value a parser accepts is an integer >= 1.
C10_AcceptedValuesArePositiveIntegers ==
  (p_fn # None /\ p_res.ok) => (p_res.t = "int" /\ p_res.v >= 1)

----------------------------------------------------------------------------
(* Claims about the wipe scripts *)

\* the target a child writes to
ProcTarget(proc) == w_argv.targets[proc.ti]

\* the successful passes made on target number t
GoodPasses(t) ==
  {i \in 1..Len(w_procs) : /\ w_procs[i].ti = t
                           /\ w_procs[i].state = "exited"
                           /\ w_procs[i].returncode = 0}

C6_PassesSequentialStopAtFirstFailure ==
  /\ Len(w_procs) <= w_frame.passes
  /\ \A i \in 1..Len(w_procs) : w_procs[i].p = i
  /\ \A i \in 1..(Len(w_procs) - 1) :
       w_procs[i].state = "exited" /\ w_procs[i].returncode = 0
  /\ w_pc = "returned" =>
       /\ Len(w_procs) >= 1
       /\ w_procs[Len(w_procs)].state = "exited"
       /\ w_procs[Len(w_procs)].returncode = 0 => Len(w_procs) = w_frame.passes

C6_Witness ==
  /\ w_pc = "returned"
  /\ w_frame.passes = 3
  /\ Len(w_procs) = 3
  /\ w_procs[3].returncode = 0
  /\ w_procs[3].written = w_devsize

\* a call in which pass 2 of 3 is the first to fail
C6_StoppedAtSecondPass ==
  /\ w_pc = "returned"
  /\ w_frame.passes = 3
  /\ Len(w_procs) = 2
  /\ w_procs[2].returncode # 0

\* C7: the command exits with status 0 only if, for every target given, all the
\* requested passes were made and succeeded; a pass that exited non-zero makes
\* the exit status non-zero.
C7_ExitZeroOnlyIfAllPassesSucceeded ==
  /\ (w_pc = "exit" /\ w_exitStatus = 0) =>
       \A t \in 1..Len(w_argv.targets) : Cardinality(GoodPasses(t)) = w_args.passes
  /\ (w_pc = "exit" /\ \E i \in 1..Len(w_procs) : w_procs[i].returncode # 0)
       => w_exitStatus # 0

\* C8: every pass that has written the whole target ends with success status.
C8_FullPassEndsWithSuccess ==
  \A i \in 1..Len(w_procs) :
    (w_procs[i].state = "exited" /\ w_procs[i].written = w_devsize)
      => w_procs[i].returncode = 0

----------------------------------------------------------------------------
(* Claims about usb_tool.py: list, lookup, format, repair *)

\* a command line argparse accepts
WellFormedCli == cli.format = None \/ cli.format \in DOMAIN FS_TABLE

\* C13: a run that lists devices ends with status 0, whoever calls it and
\* whatever the inventory holds, and has executed no command.
C13_ListExitsZeroReadOnly ==
  (pc = "exit" /\ cli.list /\ WellFormedCli) => (exitStatus = 0 /\ cmds = <<>>)

----------------------------------------------------------------------------
(* usb_tool.py: fs_backend called with kind strings of every capitalisation *)

UpperChar(c) ==
  IF \E i \in 1..Len(LowerChars) : SubSeq(LowerChars, i, i) = c
  THEN LET i == CHOOSE i \in 1..Len(LowerChars) : SubSeq(LowerChars, i, i) = c
       IN  SubSeq(UpperChars, i, i)
  ELSE c

RECURSIVE Capitalisations(_)
Capitalisations(s) ==
  IF s = "" THEN {""}
  ELSE {c \o rest : c \in {SubSeq(s, 1, 1), UpperChar(SubSeq(s, 1, 1))},
                    rest \in Capitalisations(SubSeq(s, 2, Len(s)))}

\* registered kinds, what blkid calls FAT32, kinds with no back-end, no kind
KindNames == {"fat32", "ext4", "ntfs", "vfat", "xfs", "exfat", ""}

KindStrings == UNION {Capitalisations(k) : k \in KindNames}

InitLookup ==
  /\ p_arg \in KindStrings
  /\ p_fn = None
  /\ p_res = None

\* SystemExit("Unsupported filesystem ...") is the result None
CallFsBackend ==
  /\ p_fn = None
  /\ p_fn' = "fs_backend"
  /\ p_res' = fs_backend(p_arg)
  /\ UNCHANGED <<notParse, p_arg>>

NextLookup == CallFsBackend

EqualIgnoringCase(a, b) ==
  /\ Len(a) = Len(b)
  /\ \A i \in 1..Len(a) :
       \/ SubSeq(a, i, i) = SubSeq(b, i, i)
       \/ \E j \in 1..Len(UpperChars) :
            {SubSeq(a, i, i), SubSeq(b, i, i)} = {SubSeq(UpperChars, j, j), SubSeq(LowerChars, j, j)}

\* C14: fs_backend returns the back-end registered under a kind for every
\* capitalisation of that kind, fails with "Unsupported filesystem" for every
\* other string, and every back-end is registered under its own name only.
C14_LookupIsCaseInsensitive ==
  /\ \A k \in DOMAIN FS_TABLE : FS_TABLE[k].name = k
  /\ p_fn = "fs_backend" =>
       IF \E k \in DOMAIN FS_TABLE : EqualIgnoringCase(p_arg, k)
       THEN p_res \in DOMAIN FS_TABLE /\ EqualIgnoringCase(p_arg, FS_TABLE[p_res].name)
       ELSE p_res = None

C14_Witness ==
  /\ p_fn = "fs_backend"
  /\ p_arg = "FAT32"
  /\ p_res = "fat32"

\* the commands of a format of device with kind and label, in order
FormatPlan(device, kind, label) ==
  << <<"parted", "-s", device, "mklabel", "gpt">>,
     <<"parted", "-s", device, "mkpart", "primary", kind, "1MiB", "100%">>,
     <<"partprobe", device>>,
     MkfsUsage(kind, device \o "1", label) >>

\* C15: a format that has launched its mkfs has first made the single partition
\* and asks the mkfs program of the kind for a filesystem on that partition with
\* the label given as volume label, for a removable device the gate approved;
\* no command other than those is launched.
C15_FormatMakesPartitionThenLabelledFilesystem ==
  (cli.format \in DOMAIN FS_TABLE /\ gate = "ok" /\ LooksRemovable(cli.device, gateInventory)) =>
     /\ Len(cmds) <= 4
     /\ \A i \in 1..Len(cmds) : cmds[i] = FormatPlan(cli.device, cli.format, cli.label)[i]

\* the filesystem kind that a TYPE printed by blkid names: blkid calls FAT32 "vfat"
BlkidKind(type) == IF type = "vfat" THEN "fat32" ELSE type

\* C16: a repair that has detected the kind of the filesystem on --device ends
\* having run the repair command of the back-end registered for that kind on
\* that device, and ends with "Unsupported filesystem", no repair command run,
\* exactly when no back-end is registered for the detected kind.
C16_RepairRunsBackendOfDetectedKind ==
  (pc = "exit" /\ blkid_out # None) =>
     IF BlkidKind(blkid_out) \in DOMAIN FS_TABLE
     THEN /\ exitMsg # "Unsupported filesystem"
          /\ cmds[Len(cmds)] = RepairCmd(BlkidKind(blkid_out), cli.device)
     ELSE /\ exitMsg = "Unsupported filesystem"
          /\ Len(cmds) = 1

----------------------------------------------------------------------------
(* dcfldd-wrapper.py: command line, option parsing *)

MaxSrcSize == 3
MaxCount   == 2

\* -i: none, a block device, an image file, a file that does not exist
ImgInputs  == {"", "/dev/sdb", "image.dd", "missing.dd"}
ImgOutputs == {"", "out.img"}
\* -b: none (the default 1M), numerals, a size numfmt does not understand
ImgBlockSizes == {"", "0", "1", "2", "4X"}
\* -c: none, numerals, a word
ImgCounts  == {"", "abc"} \cup {ToString(n) : n \in 0..MaxCount}

ImgRequests ==
  [i : ImgInputs, o : ImgOutputs, b : ImgBlockSizes, c : ImgCounts,
   confirm : {"", "-y", "-n"}, v : BOOLEAN, h : BOOLEAN,
   verify : {"none", "before", "after"}]

Opt(flag, value) == IF value = "" THEN <<>> ELSE <<flag, value>>

\* the words of a request in the order the usage examples give them
ArgvOf(r) ==
  (IF r.verify = "before" THEN <<"--verify">> ELSE <<>>)
  \o (IF r.confirm = "" THEN <<>> ELSE <<r.confirm>>)
  \o (IF r.h THEN <<"-h">> ELSE <<>>)
  \o Opt("-i", r.i) \o Opt("-o", r.o) \o Opt("-b", r.b) \o Opt("-c", r.c)
  \o (IF r.v THEN <<"-v">> ELSE <<>>)
  \o (IF r.verify = "after" THEN <<"--verify">> ELSE <<>>)

ImgFiles == {"image.dd"}
ImgBlockDevices == {"/dev/sdb"}

\* GLOBAL DEFAULTS
ImgDefaults ==
  [INPUT |-> "", OUTPUT |-> "", BLOCKSIZE |-> "1M", COUNT |-> "", VERBOSE |-> 0,
   AUTO_YES |-> 0, DRY_RUN |-> 0, VERIFY_ONLY |-> 0]

NoCalc == [SIZE_BYTES |-> 0, BLOCKSIZE_BYTES |-> "", BLOCK_COUNT |-> ""]

IdleImg ==
  /\ d_argv = <<>>
  /\ d_euid = 0
  /\ d_srcsize = 0
  /\ d_pc = "idle"
  /\ d_opt = ImgDefaults
  /\ d_calc = NoCalc
  /\ d_cmds = <<>>
  /\ d_stderr = <<>>
  /\ d_exitStatus = 0

InitImg ==
  /\ \E r \in ImgRequests :
       /\ d_argv = ArgvOf(r)
       /\ d_srcsize \in IF r.i \in ImgFiles \cup ImgBlockDevices THEN 0..MaxSrcSize ELSE {0}
  /\ d_euid \in Euids
  /\ d_pc = "deps"
  /\ d_opt = ImgDefaults
  /\ d_calc = NoCalc
  /\ d_cmds = <<>>
  /\ d_stderr = <<>>
  /\ d_exitStatus = 0

\* exit; err() writes its message and exits 1; a command that fails under
\* set -e runs the ERR trap ("Script aborted on line N") and exits 1
DExit(status, msg) ==
  /\ d_pc' = "exit"
  /\ d_exitStatus' = status
  /\ d_stderr' = IF msg = "" THEN d_stderr ELSE Append(d_stderr, msg)

\* DEPENDENCY CHECK: the binaries and the Python package are there or not
DepsCheck ==
  /\ d_pc = "deps"
  /\ \E ok \in BOOLEAN :
       IF ok THEN d_pc' = "euid" /\ UNCHANGED <<d_exitStatus, d_stderr>>
             ELSE DExit(1, "ERROR required binary or package missing")
  /\ UNCHANGED <<notImg, d_argv, d_euid, d_srcsize, d_opt, d_calc, d_cmds>>

\* [[ $EUID -ne 0 ]] && warn ...: a warning, the script goes on
RootWarn ==
  /\ d_pc = "euid"
  /\ d_stderr' = IF d_euid # 0 THEN Append(d_stderr, "WARN not running as root")
                 ELSE d_stderr
  /\ d_pc' = "longopts"
  /\ UNCHANGED <<notImg, d_argv, d_euid, d_srcsize, d_opt, d_calc, d_cmds, d_exitStatus>>

\* Long-options shim, one turn of the while loop: --verify shifts inside the
\* case and the loop shifts again; --help appends -h
LongOpts ==
  /\ d_pc = "longopts"
  /\ IF d_argv # <<>> /\ StartsWith(Head(d_argv), "--")
     THEN CASE Head(d_argv) = "--help" ->
                 /\ d_argv' = Tail(d_argv) \o <<"-h">>
                 /\ UNCHANGED <<d_opt, d_pc, d_exitStatus, d_stderr>>
            [] Head(d_argv) = "--verify" ->
                 /\ d_opt' = [d_opt EXCEPT !.VERIFY_ONLY = 1]
                 /\ d_argv' = IF Len(d_argv) >= 2 THEN Tail(Tail(d_argv)) ELSE <<>>
                 /\ IF Len(d_argv) >= 2
                    THEN UNCHANGED <<d_pc, d_exitStatus, d_stderr>>
                    ELSE DExit(1, "FATAL Script aborted on line 129")
            [] OTHER ->
                 /\ DExit(1, "ERROR Unknown option")
                 /\ UNCHANGED <<d_argv, d_opt>>
     ELSE /\ d_pc' = "getopts"
          /\ UNCHANGED <<d_argv, d_opt, d_exitStatus, d_stderr>>
  /\ UNCHANGED <<notImg, d_euid, d_srcsize, d_calc, d_cmds>>

\* options that take a value, and the variable each one sets
ValueOptions == {"-i", "-o", "-b", "-c"}

SetOption(o, flag, value) ==
  CASE flag = "-i" -> [o EXCEPT !.INPUT = value]
    [] flag = "-o" -> [o EXCEPT !.OUTPUT = value]
    [] flag = "-b" -> [o EXCEPT !.BLOCKSIZE = value]
    [] flag = "-c" -> [o EXCEPT !.COUNT = value]

\* while getopts ...; do case: the options set so far and how the loop ended.
\* ((VERBOSE++)) has the value of VERBOSE before the increment: at 0 its status
\* is 1 and errexit ends the script
RECURSIVE GetoptsLoop(_, _)
GetoptsLoop(args, o) ==
  IF args = <<>> THEN [opt |-> o, end |-> "done"]
  ELSE LET a == Head(args)
       IN  CASE a = "-h" -> [opt |-> o, end |-> "usage"]
             [] a = "-v" -> IF o.VERBOSE = 0
                            THEN [opt |-> o, end |-> "FATAL Script aborted on line 141"]
                            ELSE GetoptsLoop(Tail(args), [o EXCEPT !.VERBOSE = @ + 1])
             [] a = "-y" -> GetoptsLoop(Tail(args), [o EXCEPT !.AUTO_YES = 1])
             [] a = "-n" -> GetoptsLoop(Tail(args), [o EXCEPT !.DRY_RUN = 1])
             [] a \in ValueOptions ->
                  IF Len(args) < 2
                  THEN [opt |-> o, end |-> "ERROR Option requires an argument"]
                  ELSE GetoptsLoop(Tail(Tail(args)), SetOption(o, a, args[2]))
             [] a \notin {"-h", "-v", "-y", "-n"} \cup ValueOptions /\ StartsWith(a, "-") ->
                  [opt |-> o, end |-> "ERROR Invalid option"]
             [] OTHER -> [opt |-> o, end |-> "done"]

Getopts ==
  /\ d_pc = "getopts"
  /\ LET r == GetoptsLoop(d_argv, d_opt)
     IN  /\ d_opt' = r.opt
         /\ CASE r.end = "done"  -> d_pc' = "required" /\ UNCHANGED <<d_exitStatus, d_stderr>>
              [] r.end = "usage" -> DExit(0, "")
              [] OTHER           -> DExit(1, r.end)
  /\ UNCHANGED <<notImg, d_argv, d_euid, d_srcsize, d_calc, d_cmds>>

\* [[ -z $INPUT || -z $OUTPUT ]] && { usage; exit 1; };  --verify: OUTPUT=/dev/null
Required ==
  /\ d_pc = "required"
  /\ IF d_opt.INPUT = "" \/ d_opt.OUTPUT = ""
     THEN DExit(1, "Usage") /\ UNCHANGED d_opt
     ELSE /\ d_opt' = IF d_opt.VERIFY_ONLY = 1 THEN [d_opt EXCEPT !.OUTPUT = "/dev/null"]
                      ELSE d_opt
          /\ d_pc' = "metadata"
          /\ UNCHANGED <<d_exitStatus, d_stderr>>
  /\ UNCHANGED <<notImg, d_argv, d_euid, d_srcsize, d_calc, d_cmds>>

----------------------------------------------------------------------------
(* dcfldd-wrapper.py: SOURCE METADATA + ARITHMETIC *)

\* a block device is opened by blockdev --getsize64; a user who is not root may
\* or may not have the right to
BlockdevOutcomes(uid) == IF uid = 0 THEN {TRUE} ELSE BOOLEAN

Metadata ==
  /\ d_pc = "metadata"
  /\ IF d_opt.INPUT \in ImgBlockDevices
     THEN /\ d_cmds' = d_cmds \o << <<"lsblk", "-no", "TYPE", d_opt.INPUT>>,
                                   <<"blockdev", "--getsize64", d_opt.INPUT>> >>
          /\ \E ok \in BlockdevOutcomes(d_euid) :
               IF ok THEN /\ d_calc' = [d_calc EXCEPT !.SIZE_BYTES = d_srcsize]
                          /\ d_pc' = "blocksize"
                          /\ UNCHANGED <<d_exitStatus, d_stderr>>
                     ELSE /\ DExit(1, "FATAL Script aborted on line 159")
                          /\ UNCHANGED d_calc
     ELSE /\ d_cmds' = Append(d_cmds, <<"stat", "--format=%s", d_opt.INPUT>>)
          /\ IF d_opt.INPUT \in ImgFiles
             THEN /\ d_calc' = [d_calc EXCEPT !.SIZE_BYTES = d_srcsize]
                  /\ d_pc' = "blocksize"
                  /\ UNCHANGED <<d_exitStatus, d_stderr>>
             ELSE /\ DExit(1, "FATAL Script aborted on line 162")
                  /\ UNCHANGED d_calc
  /\ UNCHANGED <<notImg, d_argv, d_euid, d_srcsize, d_opt>>

\* a word bash arithmetic reads as a decimal number
IsNumeral(w) ==
  /\ w # ""
  /\ \A i \in 1..Len(w) : IsDigit(Char(w, i))
  /\ Len(w) = 1 \/ Char(w, 1) # "0"

IecSuffixes == "KMG"

\* 1024 to the power n
RECURSIVE Pow1024(_)
Pow1024(n) == IF n = 0 THEN 1 ELSE 1024 * Pow1024(n - 1)

\* numfmt --from=iec: digits with an optional K, M or G; "" when numfmt fails
Numfmt(w) ==
  IF w # "" /\ \A i \in 1..Len(w) : IsDigit(Char(w, i))
  THEN ToString(DecVal(w))
  ELSE IF Len(w) >= 2 /\ (\A i \in 1..(Len(w) - 1) : IsDigit(Char(w, i)))
          /\ \E k \in 1..Len(IecSuffixes) : Char(IecSuffixes, k) = Char(w, Len(w))
       THEN LET k == CHOOSE k \in 1..Len(IecSuffixes) : Char(IecSuffixes, k) = Char(w, Len(w))
            IN  ToString(DecVal(SubSeq(w, 1, Len(w) - 1)) * Pow1024(k))
       ELSE ""

\* BLOCKSIZE_BYTES=$(numfmt --from=iec "$BLOCKSIZE" 2>/dev/null || echo "$BLOCKSIZE")
\* (( BLOCKSIZE_BYTES == 0 )) && err ...: a word that is no number makes (( ))
\* fail with a message, which is not the case the && waits for: the script goes on
BlockSize ==
  /\ d_pc = "blocksize"
  /\ LET bytes == IF Numfmt(d_opt.BLOCKSIZE) = "" THEN d_opt.BLOCKSIZE
                  ELSE Numfmt(d_opt.BLOCKSIZE)
     IN  /\ d_calc' = [d_calc EXCEPT !.BLOCKSIZE_BYTES = bytes]
         /\ IF IsNumeral(bytes)
            THEN IF DecVal(bytes) = 0
                 THEN DExit(1, "ERROR Could not parse block size")
                 ELSE d_pc' = "arith" /\ UNCHANGED <<d_exitStatus, d_stderr>>
            ELSE IF IsDigit(Char(bytes, 1))
                 THEN /\ d_pc' = "arith"
                      /\ d_stderr' = Append(d_stderr, "((: value too great for base")
                      /\ UNCHANGED d_exitStatus
                 ELSE DExit(1, "unbound variable")
  /\ UNCHANGED <<notImg, d_argv, d_euid, d_srcsize, d_opt, d_cmds>>

\* what bc does with an expression it cannot read: it prints nothing, and its
\* exit status depends on the bc at hand
BcOutcomes == {"empty output", "FATAL Script aborted on line 172"}

\* a quotient that drops the remainder
BcQuotient(size, bs) == size \div bs

\* bc <<< "scale=0; ($SIZE_BYTES + $BLOCKSIZE_BYTES - 1) / $BLOCKSIZE_BYTES"
BcBlockCount(size, bs) == (size + bs - 1) \div bs

\* if [[ -n $COUNT ]] ... else ... fi
Arith ==
  /\ d_pc = "arith"
  /\ LET bs == d_calc.BLOCKSIZE_BYTES
     IN  IF d_opt.COUNT # ""
         THEN IF ~IsNumeral(d_opt.COUNT)
              THEN DExit(1, "unbound variable") /\ UNCHANGED d_calc
              ELSE IF ~IsNumeral(bs)
              THEN /\ DExit(1, "FATAL Script aborted on line 172")
                   /\ d_calc' = [d_calc EXCEPT !.BLOCK_COUNT = d_opt.COUNT]
              ELSE /\ d_calc' = [d_calc EXCEPT !.BLOCK_COUNT = d_opt.COUNT,
                                               !.SIZE_BYTES = DecVal(d_opt.COUNT) * DecVal(bs)]
                   /\ d_pc' = "log"
                   /\ UNCHANGED <<d_exitStatus, d_stderr>>
         ELSE IF ~IsNumeral(bs)
              THEN \E out \in BcOutcomes :
                     /\ d_calc' = [d_calc EXCEPT !.BLOCK_COUNT = ""]
                     /\ IF out = "empty output"
                        THEN d_pc' = "log" /\ UNCHANGED <<d_exitStatus, d_stderr>>
                        ELSE DExit(1, out)
              ELSE /\ d_calc' = [d_calc EXCEPT !.BLOCK_COUNT =
                          ToString(BcBlockCount(d_calc.SIZE_BYTES, DecVal(bs)))]
                   /\ d_pc' = "log"
                   /\ UNCHANGED <<d_exitStatus, d_stderr>>
  /\ UNCHANGED <<notImg, d_argv, d_euid, d_srcsize, d_opt, d_cmds>>

\* log() { [[ $VERBOSE -ge 1 ]] && echo ... }: at VERBOSE 0 the function returns
\* 1, the call is a simple command, errexit ends the script
LogStatus(verbose) == IF verbose >= 1 THEN 0 ELSE 1

\* log "Input type ..."
Log ==
  /\ d_pc = "log"
  /\ IF LogStatus(d_opt.VERBOSE) = 0
     THEN d_pc' = "summary" /\ UNCHANGED <<d_exitStatus, d_stderr>>
     ELSE DExit(1, "FATAL Script aborted on line 175")
  /\ UNCHANGED <<notImg, d_argv, d_euid, d_srcsize, d_opt, d_calc, d_cmds>>

NextImg ==
  \/ DepsCheck \/ RootWarn \/ LongOpts \/ Getopts \/ Required
  \/ Metadata \/ BlockSize \/ Arith \/ Log

----------------------------------------------------------------------------
(* Claims about dcfldd-wrapper.py *)

\* the numeric options of the request are numbers the script can compute with
WellFormedNumbers ==
  /\ Numfmt(d_opt.BLOCKSIZE) # ""
  /\ DecVal(Numfmt(d_opt.BLOCKSIZE)) > 0
  /\ d_opt.COUNT = "" \/ IsNumeral(d_opt.COUNT)

RanOnSource(program) == \E i \in 1..Len(d_cmds) : d_cmds[i][1] = program

\* C11: a request with a malformed block size or count ends with a non-zero
\* exit status, and no command has opened the source device before the numeric
\* options were found well-formed.
C11_ValidatedBeforeDeviceAccess ==
  /\ (d_pc = "exit" /\ d_opt.INPUT # "" /\ ~WellFormedNumbers) => d_exitStatus # 0
  /\ RanOnSource("blockdev") => WellFormedNumbers

\* C12: a run by a user who is not root is stopped at the privilege check: it
\* parses no option and runs no command on the source.
C12_UnprivilegedRefusedFirst ==
  d_euid # 0 => (d_pc \in {"deps", "euid", "exit"} /\ d_opt = ImgDefaults /\ d_cmds = <<>>)

\* n is the number of blocks of bs bytes that hold size bytes
IsCeiling(n, size, bs) == n * bs >= size /\ (n = 0 \/ (n - 1) * bs < size)

\* C17: after the arithmetic section, without -c BLOCK_COUNT is the size of the
\* source divided by the block size, rounded up, and SIZE_BYTES is the size of
\* the source; with -c BLOCK_COUNT is the count given and SIZE_BYTES is count
\* times block size, whatever the size of the source.
C17_BlockCountAndSize ==
  (d_pc = "log" /\ IsNumeral(d_calc.BLOCKSIZE_BYTES)) =>
     IF d_opt.COUNT = ""
     THEN /\ IsNumeral(d_calc.BLOCK_COUNT)
          /\ IsCeiling(DecVal(d_calc.BLOCK_COUNT), d_srcsize, DecVal(d_calc.BLOCKSIZE_BYTES))
          /\ d_calc.SIZE_BYTES = d_srcsize
     ELSE /\ d_calc.BLOCK_COUNT = d_opt.COUNT
          /\ d_calc.SIZE_BYTES = DecVal(d_opt.COUNT) * DecVal(d_calc.BLOCKSIZE_BYTES)

\* a source of 3 bytes in blocks of 2: two blocks
C17_Witness ==
  /\ d_pc = "log"
  /\ d_opt.COUNT = ""
  /\ d_opt.BLOCKSIZE = "2"
  /\ d_srcsize = 3
  /\ d_calc.BLOCK_COUNT = "2"

\* a count of 2 blocks of 2 bytes on a source of 1 byte: 4 bytes
C17_WitnessCount ==
  /\ d_pc = "log"
  /\ d_opt.COUNT = "2"
  /\ d_opt.BLOCKSIZE = "2"
  /\ d_srcsize = 1
  /\ d_calc.SIZE_BYTES = 4

\* C18: a run asked for an image with -c and -y, with well-formed numbers, that
\* has taken the count as its block count does not end without having run
\* dcfldd on the source (there is no destination of count times block size
\* bytes otherwise).
C18_ExplicitCountImageIsMade ==
  ( /\ d_pc = "exit"
    /\ d_opt.AUTO_YES = 1
    /\ d_opt.COUNT # ""
    /\ WellFormedNumbers
    /\ d_calc.BLOCK_COUNT = d_opt.COUNT )
  => RanOnSource("dcfldd")

----------------------------------------------------------------------------
(* dcfldd-wrapper.py: EMBEDDED PYTHON (Rich) PROGRESS and JSON REPORT *)

MaxTotal == 2
MaxLines == 2

\* DCFLDD=(dcfldd if=... of=... ...)
DcflddWords == <<"dcfldd", "if=image.dd", "of=out.img">>

\* python3 -u - <<EOF --total "$SIZE_BYTES" -- ${DCFLDD[@]}
ScriptWords(total) == <<"--total", ToString(total), "--">> \o DcflddWords

\* the same program given the command without the "--"
DirectWords(total) == <<"--total", ToString(total)>> \o DcflddWords

\* lines dcfldd may write on stderr
ChildLines == {"1 bytes", "2 bytes copied", "sha256: 2f", "2+0 records out"}

Executables == {"dcfldd"}

NoChild == [state |-> "none", returncode |-> 0, lines |-> 0]

IdleCopy ==
  /\ y_entry = "script"
  /\ y_argv = <<>>
  /\ y_pc = "idle"
  /\ y_args = [total |-> 0, cmd |-> <<>>]
  /\ y_child = NoChild
  /\ y_pipe = <<>>
  /\ y_progress = <<>>
  /\ y_pyexit = 0
  /\ y_report = FALSE
  /\ y_exitStatus = 0

InitCopy ==
  /\ y_entry \in {"script", "direct"}
  /\ \E total \in 0..MaxTotal :
       y_argv = IF y_entry = "script" THEN ScriptWords(total) ELSE DirectWords(total)
  /\ y_pc = "parse_args"
  /\ y_args = [total |-> 0, cmd |-> <<>>]
  /\ y_child = NoChild
  /\ y_pipe = <<>>
  /\ y_progress = <<>>
  /\ y_pyexit = 0
  /\ y_report = FALSE
  /\ y_exitStatus = 0

\* parser.parse_args(): --total N, then cmd with nargs=argparse.REMAINDER, which
\* takes every word that is left, a "--" included
PyParseArgs ==
  /\ y_pc = "parse_args"
  /\ y_args' = [total |-> DecVal(y_argv[2]), cmd |-> SubSeq(y_argv, 3, Len(y_argv))]
  /\ y_pc' = "popen"
  /\ UNCHANGED <<notCopy, y_entry, y_argv, y_child, y_pipe, y_progress, y_pyexit,
                 y_report, y_exitStatus>>

\* the Python program ends: the script goes on at RC=$?, a run by hand is over
PyExit(status) ==
  /\ y_pyexit' = status
  /\ IF y_entry = "script"
     THEN y_pc' = "RC" /\ UNCHANGED y_exitStatus
     ELSE y_pc' = "exit" /\ y_exitStatus' = status

\* proc = subprocess.Popen(args.cmd, ...): FileNotFoundError when the first
\* word is no program, which nothing catches
Popen ==
  /\ y_pc = "popen"
  /\ IF y_args.cmd # <<>> /\ y_args.cmd[1] \in Executables
     THEN /\ y_child' = [state |-> "running", returncode |-> 0, lines |-> 0]
          /\ y_pc' = "read"
          /\ UNCHANGED <<y_pyexit, y_exitStatus>>
     ELSE /\ PyExit(1)
          /\ UNCHANGED y_child
  /\ UNCHANGED <<notCopy, y_entry, y_argv, y_args, y_pipe, y_progress, y_report>>

\* the child writes a status line
ChildWrites ==
  /\ y_child.state = "running"
  /\ y_child.lines < MaxLines
  /\ \E line \in ChildLines : y_pipe' = Append(y_pipe, line)
  /\ y_child' = [y_child EXCEPT !.lines = @ + 1]
  /\ UNCHANGED <<notCopy, y_entry, y_argv, y_pc, y_args, y_progress, y_pyexit,
                 y_report, y_exitStatus>>

\* the child ends, with success or not
ChildExits ==
  /\ y_child.state = "running"
  /\ \E rc \in {0, 1} : y_child' = [y_child EXCEPT !.state = "exited", !.returncode = rc]
  /\ UNCHANGED <<notCopy, y_entry, y_argv, y_pc, y_args, y_pipe, y_progress, y_pyexit,
                 y_report, y_exitStatus>>

\* bytes_re = re.compile(r"(\d+) bytes"); bytes_re.search(line)
BytesAt(line, i) ==
  /\ IsDigit(Char(line, i))
  /\ DigitRunEnd(line, i) + 6 <= Len(line)
  /\ SubSeq(line, DigitRunEnd(line, i) + 1, DigitRunEnd(line, i) + 6) = " bytes"

BytesMatch(line) == \E i \in 1..Len(line) : BytesAt(line, i)

\* int(m.group(1)) of the leftmost match
BytesGroup(line) ==
  LET i == CHOOSE i \in 1..Len(line) :
             BytesAt(line, i) /\ \A j \in 1..(i - 1) : ~BytesAt(line, j)
  IN  DecVal(SubSeq(line, i, DigitRunEnd(line, i)))

\* for line in proc.stderr: one line
PyReadLine ==
  /\ y_pc = "read"
  /\ y_pipe # <<>>
  /\ y_pipe' = Tail(y_pipe)
  /\ y_progress' = IF BytesMatch(Head(y_pipe))
                   THEN Append(y_progress, BytesGroup(Head(y_pipe)))
                   ELSE y_progress
  /\ UNCHANGED <<notCopy, y_entry, y_argv, y_pc, y_args, y_child, y_pyexit, y_report,
                 y_exitStatus>>

\* end of the child's stderr; proc.wait(); progress.update(task, completed=args.total)
PyWait ==
  /\ y_pc = "read"
  /\ y_pipe = <<>>
  /\ y_child.state = "exited"
  /\ y_progress' = Append(y_progress, y_args.total)
  /\ y_pc' = "finished"
  /\ UNCHANGED <<notCopy, y_entry, y_argv, y_args, y_child, y_pipe, y_pyexit, y_report,
                 y_exitStatus>>

\* console.print("Finished ..."), end of the program: proc.returncode is not
\* looked at, the program ends with status 0
PyStatus(returncode) == 0

PyFinished ==
  /\ y_pc = "finished"
  /\ PyExit(PyStatus(y_child.returncode))
  /\ UNCHANGED <<notCopy, y_entry, y_argv, y_args, y_child, y_pipe, y_progress, y_report>>

\* RC=$? and JSON REPORT; under set -e a python3 that fails ends the script at
\* line 250 with that status
ShellReport ==
  /\ y_pc = "RC"
  /\ y_report' = (y_pyexit = 0)
  /\ y_exitStatus' = y_pyexit
  /\ y_pc' = "exit"
  /\ UNCHANGED <<notCopy, y_entry, y_argv, y_args, y_child, y_pipe, y_progress, y_pyexit>>

NextCopy ==
  \/ PyParseArgs \/ Popen \/ ChildWrites \/ ChildExits \/ PyReadLine \/ PyWait
  \/ PyFinished \/ ShellReport

----------------------------------------------------------------------------
(* usb_tool.py started several times by root: each run is its own process and
   goes through main on its own; the runs share the devices and nothing else *)

MaxRuns == 2

Runs == 1..MaxRuns

RunDevices == {"/dev/sda", "/dev/sdb"}
RunOps == {"format", "repair", "scan_badblocks"}

IdleRuns == r_runs = <<>>

InitRuns ==
  r_runs \in [Runs -> [device : RunDevices, force : BOOLEAN, op : RunOps,
                       pc : {"mode"}, status : {0}]]

\* main, line 196: sanity_check(cli.device, force=cli.force); it asks whether
\* the path exists and is removable, not whether another run works on it
RunSanityCheck(r) ==
  /\ r_runs[r].pc = "mode"
  /\ LET result == sanity_check(r_runs[r].device, r_runs[r].force,
                                PathExists(r_runs[r].device, HotPlug),
                                list_block_devices(HotPlug))
     IN  r_runs' = [r_runs EXCEPT ![r].pc = AfterGate(result),
                                  ![r].status = IF result = "ok" THEN 0 ELSE 1]
  /\ UNCHANGED notRuns

\* main, lines 199-218: the first command of the operation is started on the
\* device (parted, blkid and the repair program, badblocks)
RunStarts(r) ==
  /\ r_runs[r].pc = "dispatch"
  /\ r_runs' = [r_runs EXCEPT ![r].pc = "running"]
  /\ UNCHANGED notRuns

\* the commands of the operation have ended, with success or not
RunEnds(r) ==
  /\ r_runs[r].pc = "running"
  /\ \E status \in {0, 1} : r_runs' = [r_runs EXCEPT ![r].pc = "exit", ![r].status = status]
  /\ UNCHANGED notRuns

NextRuns == \E r \in Runs : RunSanityCheck(r) \/ RunStarts(r) \/ RunEnds(r)

\* C20: no two runs have their operation in flight on the same device path.
C20_OneOperationPerDevice ==
  \A a, b \in Runs :
    (a # b /\ r_runs[a].pc = "running" /\ r_runs[b].pc = "running")
      => r_runs[a].device # r_runs[b].device

----------------------------------------------------------------------------
(* Claims about confirmation, option order, cancellation and progress *)

\* the commands of main that write to the device
Destructive(cmd) == cmd[1] \in {"parted", "badblocks", "mkfs.fat", "mkfs.ext4", "mkntfs"}

\* what main has read from the operator: usb_tool.py has no input() call, and
\* build_cli has no option that stands for an answer
OperatorAnswers == <<>>

Confirmed == \E i \in 1..Len(OperatorAnswers) : OperatorAnswers[i] \in {"y", "Y"}

\* C21: a run on a removable device has started a command that writes to the
\* device only after the operator has answered yes to a confirmation prompt.
C21_DestructiveOnlyAfterConfirmation ==
  (LooksRemovable(cli.device, gateInventory) /\ \E i \in 1..Len(cmds) : Destructive(cmds[i]))
    => Confirmed

\* the last word of the command line
LastWord(argv) == IF argv = <<>> THEN "" ELSE argv[Len(argv)]

\* C22: --verify placed before the short options is taken off the command line
\* alone, so that every word after it is still parsed; --verify placed after
\* them does not end the run with an option error.
C22_VerifyKeepsOtherOptions ==
  /\ [][(d_pc = "longopts" /\ d_argv # <<>> /\ Head(d_argv) = "--verify")
          => d_argv' = Tail(d_argv)]_vars
  /\ []((d_pc = "exit" /\ LastWord(d_argv) = "--verify")
          => \A i \in 1..Len(d_stderr) : d_stderr[i] # "ERROR Invalid option")

----------------------------------------------------------------------------
(* The wipe scripts are cancelled while a pass runs: the scripts install no
   signal handler and wipe_one has no try/finally around the child *)

\* who gets the signal: Ctrl-C at the terminal goes to every process of the
\* foreground process group, kill(pid, SIGINT or SIGTERM) to the script alone
CancelScopes == {"group", "tool"}

\* the signal arrives inside `for line in proc.stderr` / proc.wait(): the
\* interpreter ends (KeyboardInterrupt is not caught, SIGTERM has its default
\* action); nothing calls proc.terminate() or proc.kill()
WCancel ==
  /\ w_pc = "wait"
  /\ \E scope \in CancelScopes :
       w_procs' = [i \in DOMAIN w_procs |->
                     IF scope = "group" /\ w_procs[i].state = "running"
                     THEN [w_procs[i] EXCEPT !.state = "exited", !.returncode = -2]
                     ELSE w_procs[i]]
  /\ w_pc' = "interrupted"
  /\ w_exitStatus' = 130
  /\ UNCHANGED <<notWipe, w_script, w_entry, w_argv, w_euid, w_devsize, w_srclen, w_args,
                 w_ti, w_frame, w_console>>

\* a dd left behind writes its next status line into a pipe nobody reads any
\* more: SIGPIPE ends it
DdSigpipe ==
  /\ w_pc = "interrupted"
  /\ \E i \in 1..Len(w_procs) :
       /\ w_procs[i].state = "running"
       /\ w_procs' = [w_procs EXCEPT ![i].state = "exited", ![i].returncode = -13]
  /\ UNCHANGED <<notWipe, w_script, w_entry, w_argv, w_euid, w_devsize, w_srclen, w_pc,
                 w_args, w_ti, w_frame, w_console, w_exitStatus>>

NextWipeCancel == NextWipeOne \/ WCancel \/ DdSigpipe

\* C23: once the script has stopped because of a cancellation, no dd it started
\* is still running.
C23_CancelledToolLeavesNoChild ==
  w_pc = "interrupted" => \A i \in 1..Len(w_procs) : w_procs[i].state # "running"

----------------------------------------------------------------------------
(* wipe_one / wipe_target: one pass on a device, with the lines that
   dd if=/dev/zero of=path bs=bs status=progress writes on stderr *)

NoDd == [state |-> "none", written |-> 0, status |-> 0, returncode |-> 0]

IdleProg ==
  /\ s_bs = 0
  /\ s_size = 0
  /\ s_pc = "idle"
  /\ s_dd = NoDd
  /\ s_pipe = <<>>
  /\ s_progress = <<>>

InitProg ==
  /\ s_bs \in 1..MaxBs
  /\ s_size \in 1..MaxSize
  /\ s_pc = "popen"
  /\ s_dd = NoDd
  /\ s_pipe = <<>>
  /\ s_progress = <<>>

\* proc = subprocess.Popen(cmd, stderr=subprocess.PIPE, text=True)
SPopen ==
  /\ s_pc = "popen"
  /\ s_dd' = [NoDd EXCEPT !.state = "running"]
  /\ s_pc' = "read"
  /\ UNCHANGED <<notProg, s_bs, s_size, s_pipe, s_progress>>

\* dd writes one block; the write that reaches the end of the device is cut
SDdCopy ==
  /\ s_dd.state = "running"
  /\ s_dd.written < s_size
  /\ s_dd' = [s_dd EXCEPT !.written = Min(@ + s_bs, s_size)]
  /\ UNCHANGED <<notProg, s_bs, s_size, s_pc, s_pipe, s_progress>>

\* status=progress, once a second: "<bytes> bytes (...) copied, ..."
StatusLine(written) == ToString(written) \o " bytes copied"

SDdStatus ==
  /\ s_dd.state = "running"
  /\ s_dd.status < MaxLines
  /\ s_pipe' = Append(s_pipe, StatusLine(s_dd.written))
  /\ s_dd' = [s_dd EXCEPT !.status = @ + 1]
  /\ UNCHANGED <<notProg, s_bs, s_size, s_pc, s_progress>>

\* what dd writes when it ends at the end of the device: the error, the
\* records read (the block it could not write included), the records written
\* in full, the bytes written
SummaryLines(bs, written) ==
  << "dd: error writing: No space left on device",
     ToString(written \div bs + 1) \o "+0 records in",
     ToString(written \div bs) \o "+0 records out",
     StatusLine(written) >>

SDdEnds ==
  /\ s_dd.state = "running"
  /\ s_dd.written = s_size
  /\ s_pipe' = s_pipe \o SummaryLines(s_bs, s_dd.written)
  /\ s_dd' = [s_dd EXCEPT !.state = "exited", !.returncode = 1]
  /\ UNCHANGED <<notProg, s_bs, s_size, s_pc, s_progress>>

\* m = re.match(r"^(\d+)", line); int(m.group(1))
LeadingNumber(line) ==
  IF line # "" /\ IsDigit(Char(line, 1))
  THEN DecVal(SubSeq(line, 1, DigitRunEnd(line, 1)))
  ELSE -1

\* for line in proc.stderr: if m: progress.update(task, completed=...)
SReadLine ==
  /\ s_pc = "read"
  /\ s_pipe # <<>>
  /\ s_pipe' = Tail(s_pipe)
  /\ s_progress' = IF LeadingNumber(Head(s_pipe)) >= 0
                   THEN Append(s_progress, LeadingNumber(Head(s_pipe)))
                   ELSE s_progress
  /\ UNCHANGED <<notProg, s_bs, s_size, s_pc, s_dd>>

\* end of the child's stderr; proc.wait()
SWait ==
  /\ s_pc = "read"
  /\ s_pipe = <<>>
  /\ s_dd.state = "exited"
  /\ s_pc' = "waited"
  /\ UNCHANGED <<notProg, s_bs, s_size, s_dd, s_pipe, s_progress>>

NextProg == SPopen \/ SDdCopy \/ SDdStatus \/ SDdEnds \/ SReadLine \/ SWait

\* C24: the values given to the progress bar within a pass never decrease.
C24_ProgressNeverDecreases ==
  \A i \in 1..(Len(s_progress) - 1) : s_progress[i] <= s_progress[i + 1]

----------------------------------------------------------------------------
(* Claims about usb_tool.py: inventory, dispatch, the steps of Format *)

\* device nodes of pseudo-devices: loop, RAM disk, device-mapper
IsVirtual(name) ==
  StartsWith(name, "/dev/loop") \/ StartsWith(name, "/dev/ram") \/ StartsWith(name, "/dev/dm-")

\* C25: the inventory that list_block_devices returned holds no optical drive
\* and no pseudo-device, and no device twice.
C25_InventoryExcludesVirtualAndOptical ==
  /\ \A i \in 1..Len(gateInventory) :
       /\ ~IsVirtual(gateInventory[i].name)
       /\ UdevDb[gateInventory[i].name].ID_TYPE # "cd"
  /\ \A i, j \in 1..Len(gateInventory) :
       i # j => gateInventory[i].name # gateInventory[j].name

\* the operation a command belongs to
OpOf(cmd) ==
  CASE cmd[1] \in {"parted", "partprobe", "mkfs.fat", "mkfs.ext4", "mkntfs"} -> "format"
    [] cmd[1] \in {"blkid", "dosfsck", "e2fsck", "ntfsfix"} -> "repair"
    [] cmd[1] = "badblocks" -> "scan"

\* the first operation asked for, in the order list, format, repair, scan
FirstOperation ==
  IF cli.list THEN "list"
  ELSE IF cli.format # None THEN "format"
  ELSE IF cli.repair THEN "repair"
  ELSE IF cli.scan_badblocks THEN "scan"
  ELSE "none"

\* C26: every command of a run belongs to the first operation asked for, a
\* listing runs no command, and a run that ends with the message of an
\* operation has run that first operation.
C26_OnlyFirstOperationRuns ==
  /\ \A i \in 1..Len(cmds) : OpOf(cmds[i]) = FirstOperation
  /\ exitMsg = "list" => FirstOperation = "list"
  /\ exitMsg = "Formatted" => FirstOperation = "format"
  /\ exitMsg = "Repair finished" => FirstOperation = "repair"
  /\ exitMsg = "badblocks done" => FirstOperation = "scan"

\* format, repair and scan asked for together: the format has run to its end
C26_Witness ==
  /\ cli.format # None /\ cli.repair /\ cli.scan_badblocks
  /\ pc = "exit"
  /\ exitMsg = "Formatted"
  /\ Len(cmds) = 4

----------------------------------------------------------------------------
(* useful_scripts/control-monitor.py: the script is started several times,
   by the user and by the timers it leaves behind; each start is a process of
   its own, and hyprctl holds the state they share *)

MaxInvocations == 2

Monitors == {"DP-1", "HDMI-A-1"}

\* --hours/--minutes/--seconds: none given, or five minutes
Delays == {0, 300}

Invocations == 1..MaxInvocations

IdleMon ==
  /\ m_active = {}
  /\ m_files = {}
  /\ m_timers = {}
  /\ m_runs = <<>>

InitMon ==
  /\ m_active \in SUBSET Monitors \ {{}}
  /\ m_files \in SUBSET Monitors
  /\ m_timers = {}
  /\ m_runs \in [Invocations -> [command : {"enable", "disable"}, mon : Monitors,
                                 delay : Delays, force : BOOLEAN, defaults : BOOLEAN,
                                 pc : {"main"}]]

\* main, disable branch: active = getMonitors(); the two refusals
MDisableCheck(r) ==
  /\ m_runs[r].pc = "main"
  /\ m_runs[r].command = "disable"
  /\ m_runs' = [m_runs EXCEPT ![r].pc =
                  IF m_runs[r].mon \notin m_active THEN "done"
                  ELSE IF Cardinality(m_active) <= 1 /\ m_runs[r].delay <= 0 THEN "done"
                  ELSE "disableMonitor"]
  /\ UNCHANGED <<notMon, m_active, m_files, m_timers>>

\* disableMonitor(mon, cfg_file), then spawn_reenable when delay > 0:
\* disableMonitor asks hyprctl again for the monitor's configuration and returns
\* when it is gone; main spawns the timer whatever disableMonitor did
MDisableMonitor(r) ==
  /\ m_runs[r].pc = "disableMonitor"
  /\ IF m_runs[r].mon \in m_active
     THEN /\ m_files' = m_files \cup {m_runs[r].mon}
          /\ m_active' = m_active \ {m_runs[r].mon}
     ELSE UNCHANGED <<m_files, m_active>>
  /\ m_timers' = IF m_runs[r].delay > 0
                 THEN m_timers \cup {[mon |-> m_runs[r].mon, force |-> m_runs[r].force,
                                      defaults |-> m_runs[r].defaults]}
                 ELSE m_timers
  /\ m_runs' = [m_runs EXCEPT ![r].pc = "done"]
  /\ UNCHANGED notMon

\* enableMonitor: the monitors active after the call
enableMonitor(active, files, monitor_name, force, use_defaults) ==
  IF monitor_name \in active /\ ~force THEN active
  ELSE IF monitor_name \notin files
       THEN IF ~use_defaults THEN active ELSE active \cup {monitor_name}
       ELSE active \cup {monitor_name}

\* main, enable branch
MEnable(r) ==
  /\ m_runs[r].pc = "main"
  /\ m_runs[r].command = "enable"
  /\ m_active' = enableMonitor(m_active, m_files, m_runs[r].mon, m_runs[r].force,
                               m_runs[r].defaults)
  /\ m_runs' = [m_runs EXCEPT ![r].pc = "done"]
  /\ UNCHANGED <<notMon, m_files, m_timers>>

\* the sleep of a timer ends: control-monitor.py enable --monitor <mon> ...
MTimerFires(t) ==
  /\ t \in m_timers
  /\ m_timers' = m_timers \ {t}
  /\ m_active' = enableMonitor(m_active, m_files, t.mon, t.force, t.defaults)
  /\ UNCHANGED <<notMon, m_files, m_runs>>

NextMon ==
  \/ \E r \in Invocations : MDisableCheck(r) \/ MDisableMonitor(r) \/ MEnable(r)
  \/ \E t \in [mon : Monitors, force : BOOLEAN, defaults : BOOLEAN] : MTimerFires(t)

\* C27: when every invocation has ended, a monitor is active or a timer is
\* pending that will enable a monitor that is off.
C27_NeverDarkWithoutTimer ==
  (\A r \in Invocations : m_runs[r].pc = "done")
    => (m_active # {} \/ \E t \in m_timers : t.mon \notin m_active)

\* the steps of Format, in order
FormatSteps == <<"mklabel", "mkpart", "partprobe", "mkfs">>

StepOf(cmd) ==
  IF cmd[1] = "parted" THEN cmd[4]
  ELSE IF cmd[1] = "partprobe" THEN "partprobe"
  ELSE IF cmd[1] \in {"mkfs.fat", "mkfs.ext4", "mkntfs"} THEN "mkfs"
  ELSE cmd[1]

\* C28: the commands of a format are the steps mklabel, mkpart, partprobe, mkfs
\* in that order; a format that has ended after a command says "Formatted" with
\* status 0 only after all four, and otherwise ends with a non-zero status; and
\* a run that has ended launches no further command.
C28_FormatStepsInOrderStopAtFailure ==
  /\ [](FirstOperation = "format" =>
          /\ Len(cmds) <= Len(FormatSteps)
          /\ \A i \in 1..Len(cmds) : StepOf(cmds[i]) = FormatSteps[i]
          /\ (pc = "exit" /\ cmds # <<>>) =>
                IF exitMsg = "Formatted"
                THEN Len(cmds) = Len(FormatSteps) /\ exitStatus = 0
                ELSE exitStatus # 0)
  /\ [][pc = "exit" => cmds' = cmds]_vars

\* mkpart has failed: the run is over after two commands
C28_Witness ==
  /\ FirstOperation = "format"
  /\ pc = "exit"
  /\ Len(cmds) = 2
  /\ exitStatus = 1
  /\ exitMsg = "CalledProcessError"

\* the kernel's device node of partition n of a disk: the number follows the
\* disk's name, after a "p" when that name ends with a digit (nvme0n1p1,
\* mmcblk0p1, sdb1)
PartitionNode(device, n) ==
  IF IsDigit(Char(device, Len(device)))
  THEN device \o "p" \o ToString(n)
  ELSE device \o ToString(n)

\* C29: the mkfs command of a format of a disk is given the device node of the
\* first partition of that disk.
C29_MkfsOnThePartitionJustCreated ==
  ( /\ cli.device \in DOMAIN UdevDb
    /\ UdevDb[cli.device].DEVTYPE = "disk"
    /\ UdevDb[cli.device].ID_TYPE # "cd"
    /\ ~IsVirtual(cli.device) )
  => \A i \in 1..Len(cmds) :
       StepOf(cmds[i]) = "mkfs" => cmds[i][Len(cmds[i])] = PartitionNode(cli.device, 1)

----------------------------------------------------------------------------
(* Claims about dcfldd-wrapper.py: errexit *)

\* the ERR trap has reported the line
AbortedAt(line) ==
  \E i \in 1..Len(d_stderr) : d_stderr[i] = "FATAL Script aborted on line " \o line

\* an existing source, -i and -o, -y, no -n, numbers the script can compute with
ValidInvocation ==
  /\ d_opt.INPUT \in ImgFiles \cup ImgBlockDevices
  /\ d_opt.OUTPUT # ""
  /\ d_opt.AUTO_YES = 1
  /\ d_opt.DRY_RUN = 0
  /\ WellFormedNumbers

\* C30: a valid invocation is not ended by the ERR trap at the verbosity
\* increment (line 141) nor at the first log call (line 175).
C30_ValidInvocationNotAbortedByErrexit ==
  ValidInvocation => (~AbortedAt("141") /\ ~AbortedAt("175"))

----------------------------------------------------------------------------
(* Specifications *)

\* usb_tool.py is run
Init == InitUsb /\ IdleParse /\ IdleWipe /\ IdleImg /\ IdleCopy /\ IdleRuns /\ IdleProg /\ IdleMon
Next == NextUsb
Spec == Init /\ [][Next]_vars

\* one of the wipe scripts is run
InitWipe == InitWipeMain /\ IdleUsb /\ IdleParse /\ IdleImg /\ IdleCopy /\ IdleRuns /\ IdleProg /\ IdleMon
SpecWipe == InitWipe /\ [][NextWipe]_vars

\* wipe_one (wipe_target) is called
InitWipeFn == InitWipeOne /\ IdleUsb /\ IdleParse /\ IdleImg /\ IdleCopy /\ IdleRuns /\ IdleProg /\ IdleMon
SpecWipeOne == InitWipeFn /\ [][NextWipeOne]_vars

\* argparse calls a parser
InitParsers == InitParse /\ IdleUsb /\ IdleWipe /\ IdleImg /\ IdleCopy /\ IdleRuns /\ IdleProg /\ IdleMon
SpecParse == InitParsers /\ [][NextParse]_vars

\* fs_backend called on its own
InitFsBackend == InitLookup /\ IdleUsb /\ IdleWipe /\ IdleImg /\ IdleCopy /\ IdleRuns /\ IdleProg /\ IdleMon
SpecLookup == InitFsBackend /\ [][NextLookup]_vars

\* dcfldd-wrapper.py is run
InitImage == InitImg /\ IdleUsb /\ IdleParse /\ IdleWipe /\ IdleCopy /\ IdleRuns /\ IdleProg /\ IdleMon
SpecImage == InitImage /\ [][NextImg]_vars

\* the copy step of dcfldd-wrapper.py, and its Python program run by hand
InitCopyStep == InitCopy /\ IdleUsb /\ IdleParse /\ IdleWipe /\ IdleImg /\ IdleRuns /\ IdleProg /\ IdleMon
SpecCopy == InitCopyStep /\ [][NextCopy]_vars

\* usb_tool.py is started several times
InitConcurrent == InitRuns /\ IdleUsb /\ IdleParse /\ IdleWipe /\ IdleImg /\ IdleCopy /\ IdleProg /\ IdleMon
SpecRuns == InitConcurrent /\ [][NextRuns]_vars

\* wipe_one (wipe_target) is called and the script is cancelled during a pass
SpecWipeCancel == InitWipeFn /\ [][NextWipeCancel]_vars

\* one pass of wipe_one (wipe_target) with dd's status lines
InitPass == InitProg /\ IdleUsb /\ IdleParse /\ IdleWipe /\ IdleImg /\ IdleCopy /\ IdleRuns /\ IdleMon
SpecProgress == InitPass /\ [][NextProg]_vars

\* control-monitor.py is started several times
InitMonitors == InitMon /\ IdleUsb /\ IdleParse /\ IdleWipe /\ IdleImg /\ IdleCopy /\ IdleRuns /\ IdleProg
SpecMonitor == InitMonitors /\ [][NextMon]_vars

====
